---- MODULE Spec2Model ----
(***************************************************************************)
(* bucketboss: a token bucket and a leaky bucket rate limiter sharing the  *)
(* RateLimiter / ReconfigurableRateLimiter contracts and an injected       *)
(* millisecond clock.                                                      *)
(*                                                                         *)
(* Numbers.  An f64 rate is written as the rational <<numerator,           *)
(* denominator>> (denominator > 0) whose nearest double it is, and         *)
(* ms_per_token / ms_per_request as the pair 1000 / rate.  The double the  *)
(* source stores for such a pair, and the f64 quotients, products,         *)
(* truncations and ceilings the source takes of it, are computed with IEEE *)
(* 754 binary64 rounding (F64Ms, FloorQuot, CeilProd, TruncProd, Trunc,    *)
(* Ceil).  The u32/u64 cells hold values far below their widths, so `as    *)
(* u32` / `as u64` integer casts are the identity and saturating           *)
(* operations saturate only at 0.                                          *)
(*                                                                         *)
(* Atomics.  Every atomic load, store and compare-exchange is one step of  *)
(* the thread-level actions; memory is sequentially consistent.            *)
(***************************************************************************)
EXTENDS Integers, Sequences, FiniteSets, TLC

\* ------------------------------------------------------------------ bounds
\* largest capacity / burst size constructed or configured
MaxCap == 2
\* last clock reading (ms) the mock clock is advanced to
MaxTime == 6
\* threads sharing one limiter, and calls each of them makes
NumThreads == 2
CallsPerThread == 2

VARIABLES
    clock,          \* MockClock.now: the shared millisecond counter
    bucket,         \* the limiter instance (a TokenBucket or a LeakyBucket)
    last,           \* the last call made by the single caller: op, arg, ret
    th,             \* per thread: position in its call and the call's locals
    success_count,  \* the tests' shared counter of calls that returned Ok
    attempts        \* calls made so far by the single caller of the scenario tests

vars == <<clock, bucket, last, th, success_count, attempts>>

\* ------------------------------------------------------------- f64 numbers
Min(a, b) == IF a <= b THEN a ELSE b

\* u64::saturating_sub
saturating_sub(a, b) == IF a > b THEN a - b ELSE 0

\* x > 0.0
Positive(x) == x[1] > 0

\* 1000.0 / rate   (rate > 0): the pair <<1000 * d, n>> for the rate <<n, d>>
MsPer(rate) == <<1000 * rate[2], rate[1]>>

RECURSIVE Gcd(_, _)
Gcd(a, b) == IF b = 0 THEN a ELSE Gcd(b, a % b)

\* the rational in lowest terms: equal numbers have equal representations
Reduce(x) == LET g == Gcd(x[1], x[2]) IN <<x[1] \div g, x[2] \div g>>

\* ---- naturals wider than 32 bits: little-endian digit sequences in base
\* 2^14, without high zero digits (0 is the empty sequence).  Operators take
\* the values they share as parameters, one call of each per body.
Radix == 2^7

Base == Radix * Radix

RECURSIVE BigOf(_)
BigOf(n) == IF n = 0 THEN <<>> ELSE <<n % Base>> \o BigOf(n \div Base)

RECURSIVE BigInt(_)
BigInt(x) == IF x = <<>> THEN 0 ELSE Head(x) + Base * BigInt(Tail(x))

\* the digit d put below the digits x
BigPush(d, x) == IF d = 0 /\ x = <<>> THEN <<>> ELSE <<d>> \o x

\* -1, 0, 1 as x is below, equal to, above y
RECURSIVE BigCmp(_, _)
BigCmp(x, y) ==
    IF Len(x) # Len(y) THEN (IF Len(x) < Len(y) THEN -1 ELSE 1)
    ELSE IF x = <<>> THEN 0
    ELSE IF x[Len(x)] # y[Len(y)] THEN (IF x[Len(x)] < y[Len(y)] THEN -1 ELSE 1)
    ELSE BigCmp(SubSeq(x, 1, Len(x) - 1), SubSeq(y, 1, Len(y) - 1))

\* x + y + c, c a carry of 0 or 1
RECURSIVE BigAdd(_, _, _)
BigAdd(x, y, c) ==
    IF x = <<>> /\ y = <<>> THEN BigOf(c)
    ELSE IF x = <<>> THEN BigAdd(y, x, c)
    ELSE IF y = <<>>
         THEN <<(Head(x) + c) % Base>> \o BigAdd(Tail(x), y, (Head(x) + c) \div Base)
         ELSE <<(Head(x) + Head(y) + c) % Base>>
                 \o BigAdd(Tail(x), Tail(y), (Head(x) + Head(y) + c) \div Base)

\* x - y - c for x >= y + c, c a borrow of 0 or 1
RECURSIVE BigSub(_, _, _)
BigSub(x, y, c) ==
    IF x = <<>> THEN <<>>
    ELSE IF y = <<>>
         THEN BigPush((Head(x) - c) % Base,
                      BigSub(Tail(x), y, IF Head(x) - c < 0 THEN 1 ELSE 0))
         ELSE BigPush((Head(x) - Head(y) - c) % Base,
                      BigSub(Tail(x), Tail(y), IF Head(x) - Head(y) - c < 0 THEN 1 ELSE 0))

\* x * k + c for a digit-sized k and c
RECURSIVE BigMulSmall(_, _, _)
BigMulSmall(x, k, c) ==
    IF x = <<>> THEN BigOf(c)
    ELSE BigPush((Head(x) * k + c) % Base, BigMulSmall(Tail(x), k, (Head(x) * k + c) \div Base))

\* x * y
RECURSIVE BigMul(_, _)
BigMul(x, y) ==
    IF y = <<>> THEN <<>>
    ELSE BigAdd(BigMulSmall(x, Head(y), 0), BigPush(0, BigMul(x, Tail(y))), 0)

\* x * 2^n
RECURSIVE BigShl(_, _)
BigShl(x, n) ==
    IF n >= 14 THEN BigPush(0, BigShl(x, n - 14)) ELSE BigMulSmall(x, 2^n, 0)

RECURSIVE Bits(_)
Bits(n) == IF n = 0 THEN 0 ELSE 1 + Bits(n \div 2)

\* number of binary digits of x
BigBits(x) == IF x = <<>> THEN 0 ELSE 14 * (Len(x) - 1) + Bits(x[Len(x)])

\* the largest of lo, lo + unit, ..., lo + (Radix - 1) * unit whose product
\* with y is at most x, for lo * y <= x
BigDigitFrom(x, y, lo, unit) ==
    lo + unit * (CHOOSE k \in 0..(Radix - 1) :
                    /\ BigCmp(BigMulSmall(y, lo + k * unit, 0), x) <= 0
                    /\ k < Radix - 1 => BigCmp(BigMulSmall(y, lo + (k + 1) * unit, 0), x) > 0)

\* the largest digit d with d * y <= x, for x < Base * y: its high half,
\* then its low half
BigDigit(x, y) == BigDigitFrom(x, y, BigDigitFrom(x, y, 0, Radix), 1)

\* quotient and remainder of x by y > 0: long division, one digit per level;
\* h is the division of the higher digits, rest its remainder with the next
\* digit put below, d the next quotient digit
BigDivDigit(q, rest, y, d) == [q |-> BigPush(d, q), r |-> BigSub(rest, BigMulSmall(y, d, 0), 0)]

BigDivRest(q, rest, y) == BigDivDigit(q, rest, y, BigDigit(rest, y))

BigDivStep(h, d, y) ==
    IF h.r = <<>> /\ d = 0 THEN [q |-> BigPush(0, h.q), r |-> <<>>]
    ELSE BigDivRest(h.q, BigPush(d, h.r), y)

RECURSIVE BigDivMod(_, _)
BigDivMod(x, y) ==
    IF x = <<>> THEN [q |-> <<>>, r |-> <<>>]
    ELSE BigDivStep(BigDivMod(Tail(x), y), Head(x), y)

\* ---- f64: a positive double is [m, e] standing for m * 2^e, m a natural of
\* at most 53 bits (IEEE 754 binary64, round to nearest, ties to even; the
\* values met are far from overflow and from the subnormal range)

\* the quotient d.q of a division by D with remainder d.r, rounded to nearest
\* and scaled by 2^e: up when twice the remainder exceeds D, or equals D and
\* the quotient is odd
F64Rounded(d, D, e) ==
    [m |-> IF BigCmp(BigAdd(d.r, d.r, Head(d.q) % 2), D) > 0
           THEN BigAdd(d.q, <<>>, 1) ELSE d.q,
     e |-> e]

F64Quotient(N, D, e) == F64Rounded(BigDivMod(N, D), D, e)

\* the double nearest to A * 2^k / B, for the s that gives A * 2^s / B a
\* quotient of 53 bits
F64Round(A, B, s, k) ==
    F64Quotient(IF s >= 0 THEN BigShl(A, s) ELSE A, IF s >= 0 THEN B ELSE BigShl(B, -s),
                k - s)

\* the scale that gives A * 2^s / B 53 bits: s or s - 1, for the s that
\* gives 53 or 54
F64Scale(A, B, s) ==
    IF BigCmp(BigShl(A, IF s >= 0 THEN s ELSE 0), BigShl(B, IF s >= 0 THEN 53 ELSE 53 - s)) < 0
    THEN s ELSE s - 1

\* the double nearest to A * 2^k / B, A and B positive naturals; equal
\* operands give 2^k without a division
F64Of(A, B, k) ==
    IF A = B THEN [m |-> <<1>>, e |-> k]
    ELSE F64Round(A, B, F64Scale(A, B, 53 - (BigBits(A) - BigBits(B))), k)

\* n as f64, n a positive integer below 2^53
F64Int(n) == [m |-> BigOf(n), e |-> 0]

\* x / y and x * y, rounded
F64Div(x, y) == F64Of(x.m, y.m, x.e - y.e)

F64Mul(x, y) == F64Of(BigMul(x.m, y.m), <<1>>, x.e + y.e)

\* x as u64 (truncation), and x.ceil() as u64
F64Trunc(x) ==
    BigInt(IF x.e >= 0 THEN BigShl(x.m, x.e) ELSE BigDivMod(x.m, BigShl(<<1>>, -x.e)).q)

F64Ceil(x) ==
    F64Trunc(x)
        + (IF x.e >= 0 \/ BigDivMod(x.m, BigShl(<<1>>, -x.e)).r = <<>> THEN 0 ELSE 1)

\* the double stored in ms_per_token / ms_per_request for the pair
\* ms = <<1000 * d, n>>: 1000.0 / rate, rate the double nearest to n / d
F64Ms(ms) ==
    LET rate == F64Of(BigMul(BigOf(1000), BigOf(ms[2])), BigOf(ms[1]), 0)
    IN  F64Div(F64Int(1000), rate)

\* the rational x is itself a double (lowest-terms denominator a power of 2)
Dyadic(x) == Reduce(x)[2] = 2^(Bits(Reduce(x)[2]) - 1)

\* the rate and 1000.0 / rate are both doubles: ms_per_unit is stored exactly,
\* and its quotients and products below are computed without rounding error
ExactMs(ms) == Dyadic(ms) /\ Dyadic(<<1000 * ms[2], ms[1]>>)

\* The four conversions below are the f64 expressions of the source.  The
\* rounded f64 result is within 2^-51 of the exact rational one, relatively,
\* so when the exact result is not a whole number (it is then at least
\* 1 / 2^31 away from one) both have the same floor and ceiling, and the
\* exact integer arithmetic is used; so it is when ms_per_unit is stored
\* exactly.  Otherwise the f64 operations are carried out digit by digit.

\* (elapsed as f64 / ms_per_unit) as u64
FloorQuot(elapsed, ms_per_unit) ==
    LET n == elapsed * ms_per_unit[2] IN
    IF n = 0 \/ n % ms_per_unit[1] # 0 \/ ExactMs(ms_per_unit)
    THEN n \div ms_per_unit[1]
    ELSE F64Trunc(F64Div(F64Int(elapsed), F64Ms(ms_per_unit)))

\* (k as f64 * ms_per_unit).ceil() as u64
CeilProd(k, ms_per_unit) ==
    LET p == k * ms_per_unit[1] IN
    IF p <= 0 \/ p % ms_per_unit[2] # 0 \/ ExactMs(ms_per_unit)
    THEN (p + ms_per_unit[2] - 1) \div ms_per_unit[2]
    ELSE F64Ceil(F64Mul(F64Int(k), F64Ms(ms_per_unit)))

\* (k as f64 * ms_per_unit) as u64
TruncProd(k, ms_per_unit) ==
    LET p == k * ms_per_unit[1] IN
    IF p <= 0 \/ p % ms_per_unit[2] # 0 \/ ExactMs(ms_per_unit)
    THEN p \div ms_per_unit[2]
    ELSE F64Trunc(F64Mul(F64Int(k), F64Ms(ms_per_unit)))

\* ms_per_unit as u64
Trunc(ms_per_unit) ==
    IF ms_per_unit[1] <= 0 \/ ms_per_unit[1] % ms_per_unit[2] # 0 \/ ExactMs(ms_per_unit)
    THEN ms_per_unit[1] \div ms_per_unit[2]
    ELSE F64Trunc(F64Ms(ms_per_unit))

\* ms_per_unit.ceil() as u64
Ceil(ms_per_unit) ==
    IF ms_per_unit[1] <= 0 \/ ms_per_unit[1] % ms_per_unit[2] # 0 \/ ExactMs(ms_per_unit)
    THEN (ms_per_unit[1] + ms_per_unit[2] - 1) \div ms_per_unit[2]
    ELSE F64Ceil(F64Ms(ms_per_unit))

\* ------------------------------------------------------------------ errors
Ok == [ok |-> TRUE]

rate_limit_exceeded(requested, available, retry_after_ms) ==
    [ok |-> FALSE, error |-> "RateLimitExceeded", requested |-> requested,
     available |-> available, retry_after_ms |-> retry_after_ms]

invalid_config(reason) ==
    [ok |-> FALSE, error |-> "InvalidConfiguration", reason |-> reason]

\* ------------------------------------------------------------- Option<u64>
None == [some |-> FALSE]

Some(value) == [some |-> TRUE, value |-> value]

\* ------------------------------------------------------------ token bucket
TokenBucket_with_clock(capacity, tokens_per_second, now) ==
    [kind |-> "TokenBucket",
     capacity |-> capacity,
     tokens_per_second |-> tokens_per_second,
     ms_per_token |-> MsPer(tokens_per_second),
     tokens |-> capacity,
     last_update |-> now]

\* mutant: the refill is stored without the cap at capacity
TokenBucket_update_state_uncapped(b, now) ==
    LET elapsed == saturating_sub(now, b.last_update)
        tokens_to_add == IF Positive(b.ms_per_token)
                         THEN FloorQuot(elapsed, b.ms_per_token) ELSE 0
        new_tokens == b.tokens + tokens_to_add
    IN  IF elapsed = 0 \/ tokens_to_add = 0 THEN [b |-> b, ret |-> b.tokens]
        ELSE [b |-> [b EXCEPT !.last_update = now, !.tokens = new_tokens],
              ret |-> new_tokens]

\* mutant: the refill is stored but last_update is left where it was
TokenBucket_update_state_keeps_last_update(b, now) ==
    LET elapsed == saturating_sub(now, b.last_update)
        tokens_to_add == IF Positive(b.ms_per_token)
                         THEN FloorQuot(elapsed, b.ms_per_token) ELSE 0
        capped_tokens == Min(b.tokens + tokens_to_add, b.capacity)
    IN  IF elapsed = 0 \/ tokens_to_add = 0 THEN [b |-> b, ret |-> b.tokens]
        ELSE [b |-> [b EXCEPT !.tokens = capped_tokens], ret |-> capped_tokens]

\* mutant: last_update is set to now even when no whole token is due
TokenBucket_update_state_always_restamps(b, now) ==
    LET elapsed == saturating_sub(now, b.last_update)
        tokens_to_add == IF Positive(b.ms_per_token)
                         THEN FloorQuot(elapsed, b.ms_per_token) ELSE 0
        capped_tokens == Min(b.tokens + tokens_to_add, b.capacity)
    IN  IF elapsed = 0 THEN [b |-> b, ret |-> b.tokens]
        ELSE [b |-> [b EXCEPT !.last_update = now, !.tokens = capped_tokens],
              ret |-> capped_tokens]

\* One caller running update_state to completion: the bucket after it and the
\* token count it returns.
\* update_state once elapsed and tokens_to_add are computed: the early
\* returns and the single caller's compare_exchange
TokenBucket_update_state_add(b, now, elapsed, tokens_to_add) ==
    LET capped_tokens == Min(b.tokens + tokens_to_add, b.capacity)
    IN  IF elapsed = 0 THEN [b |-> b, ret |-> b.tokens]
        ELSE IF tokens_to_add = 0 THEN [b |-> b, ret |-> b.tokens]
        ELSE [b |-> [b EXCEPT !.last_update = now, !.tokens = capped_tokens],
              ret |-> capped_tokens]

TokenBucket_update_state(b, now) ==
    TokenBucket_update_state_add(b, now, saturating_sub(now, b.last_update),
        IF Positive(b.ms_per_token)
        THEN FloorQuot(saturating_sub(now, b.last_update), b.ms_per_token) ELSE 0)

TokenBucket_set_rate(b, capacity, tokens_per_second) ==
    [b EXCEPT !.capacity = capacity,
              !.tokens_per_second = tokens_per_second,
              !.ms_per_token = IF Positive(tokens_per_second)
                               THEN MsPer(tokens_per_second) ELSE <<0, 1>>]

\* mutant: the retry hint is truncated instead of rounded up
TokenBucket_wait_ms_truncated(tokens, current_tokens, ms_per_token) ==
    TruncProd(tokens - current_tokens, ms_per_token)

\* mutant: the retry hint is the time of one token, whatever is missing
TokenBucket_wait_ms_one_token(tokens, current_tokens, ms_per_token) ==
    Ceil(ms_per_token)

\* the retry hint of a rejected token-bucket request
TokenBucket_wait_ms(tokens, current_tokens, ms_per_token) ==
    CeilProd(tokens - current_tokens, ms_per_token)

\* mutant: no early return for a request of 0 tokens
TokenBucket_try_acquire_no_zero_check(b, tokens, now) ==
    LET u == TokenBucket_update_state(b, now)
        current_tokens == u.ret
    IN  IF tokens > current_tokens
        THEN [b |-> u.b,
              ret |-> rate_limit_exceeded(tokens, current_tokens,
                        TokenBucket_wait_ms(tokens, current_tokens, u.b.ms_per_token))]
        ELSE [b |-> [u.b EXCEPT !.tokens = current_tokens - tokens], ret |-> Ok]

\* mutant: a request for exactly the tokens left is refused (>= for >)
TokenBucket_try_acquire_rejects_equal(b, tokens, now) ==
    IF tokens = 0 THEN [b |-> b, ret |-> Ok]
    ELSE LET u == TokenBucket_update_state(b, now)
             current_tokens == u.ret
         IN  IF tokens >= current_tokens
             THEN [b |-> u.b,
                   ret |-> rate_limit_exceeded(tokens, current_tokens,
                             TokenBucket_wait_ms(tokens, current_tokens, u.b.ms_per_token))]
             ELSE [b |-> [u.b EXCEPT !.tokens = current_tokens - tokens], ret |-> Ok]

\* mutant: a granted request takes one token, whatever was asked for
TokenBucket_try_acquire_takes_one(b, tokens, now) ==
    IF tokens = 0 THEN [b |-> b, ret |-> Ok]
    ELSE LET u == TokenBucket_update_state(b, now)
             current_tokens == u.ret
         IN  IF tokens > current_tokens
             THEN [b |-> u.b,
                   ret |-> rate_limit_exceeded(tokens, current_tokens,
                             TokenBucket_wait_ms(tokens, current_tokens, u.b.ms_per_token))]
             ELSE [b |-> [u.b EXCEPT !.tokens = current_tokens - 1], ret |-> Ok]

\* try_acquire after its update_state returned u
TokenBucket_try_acquire_updated(u, tokens) ==
    LET current_tokens == u.ret
    IN  IF tokens > current_tokens
        THEN [b |-> u.b,
              ret |-> rate_limit_exceeded(tokens, current_tokens,
                        TokenBucket_wait_ms(tokens, current_tokens, u.b.ms_per_token))]
        ELSE \* the compare_exchange of a single caller always succeeds
             [b |-> [u.b EXCEPT !.tokens = current_tokens - tokens], ret |-> Ok]

TokenBucket_try_acquire(b, tokens, now) ==
    IF tokens = 0 THEN [b |-> b, ret |-> Ok]
    ELSE TokenBucket_try_acquire_updated(TokenBucket_update_state(b, now), tokens)

TokenBucket_available_tokens(b, now) == TokenBucket_update_state(b, now)

TokenBucket_capacity(b) == b.capacity

TokenBucket_rate_per_second(b) == b.tokens_per_second

\* reads last_update and ms_per_token only; the token count is not consulted
TokenBucket_time_until_next_token_ms(b, now) ==
    LET last_update == b.last_update
        ms_per_token == b.ms_per_token
        next_token_time == last_update + Ceil(ms_per_token)
    IN  IF ms_per_token[1] = 0 THEN None
        ELSE IF next_token_time > now THEN Some(next_token_time - now)
        ELSE None

\* mutant: the rate is validated with < 0.0, so a rate of 0.0 is accepted
TokenBucket_update_config_accepts_zero_rate(b, capacity, tokens_per_second, now) ==
    IF capacity = 0
    THEN [b |-> b, ret |-> invalid_config("capacity must be greater than 0")]
    ELSE IF tokens_per_second[1] < 0
    THEN [b |-> b, ret |-> invalid_config("tokens_per_second must be positive")]
    ELSE LET u == TokenBucket_update_state(b, now)
             s == TokenBucket_set_rate(u.b, capacity, tokens_per_second)
         IN  [b |-> [s EXCEPT !.tokens = capacity], ret |-> Ok]

\* mutant: the token count is only cut down to the new capacity
TokenBucket_update_config_clamps(b, capacity, tokens_per_second, now) ==
    IF capacity = 0
    THEN [b |-> b, ret |-> invalid_config("capacity must be greater than 0")]
    ELSE IF ~Positive(tokens_per_second)
    THEN [b |-> b, ret |-> invalid_config("tokens_per_second must be positive")]
    ELSE LET u == TokenBucket_update_state(b, now)
             s == TokenBucket_set_rate(u.b, capacity, tokens_per_second)
         IN  [b |-> [s EXCEPT !.tokens = Min(s.tokens, capacity)], ret |-> Ok]

\* mutant: the final store to tokens is missing
TokenBucket_update_config_keeps_tokens(b, capacity, tokens_per_second, now) ==
    IF capacity = 0
    THEN [b |-> b, ret |-> invalid_config("capacity must be greater than 0")]
    ELSE IF ~Positive(tokens_per_second)
    THEN [b |-> b, ret |-> invalid_config("tokens_per_second must be positive")]
    ELSE LET u == TokenBucket_update_state(b, now)
             s == TokenBucket_set_rate(u.b, capacity, tokens_per_second)
         IN  [b |-> s, ret |-> Ok]

TokenBucket_update_config(b, capacity, tokens_per_second, now) ==
    IF capacity = 0
    THEN [b |-> b, ret |-> invalid_config("capacity must be greater than 0")]
    ELSE IF ~Positive(tokens_per_second)
    THEN [b |-> b, ret |-> invalid_config("tokens_per_second must be positive")]
    ELSE [b |-> [TokenBucket_set_rate(TokenBucket_update_state(b, now).b,
                                      capacity, tokens_per_second)
                    EXCEPT !.tokens = capacity],
          ret |-> Ok]

\* ------------------------------------------------------------ leaky bucket
\* mutant: the bucket is constructed with a full backlog
LeakyBucket_with_clock_starts_full(requests_per_second, burst_size, now) ==
    [kind |-> "LeakyBucket",
     capacity |-> burst_size,
     ms_per_request |-> MsPer(requests_per_second),
     next_allowed_time |-> now,
     current_level |-> burst_size]

LeakyBucket_with_clock(requests_per_second, burst_size, now) ==
    [kind |-> "LeakyBucket",
     capacity |-> burst_size,
     ms_per_request |-> MsPer(requests_per_second),
     next_allowed_time |-> now,
     current_level |-> 0]

\* mutant: once any unit has drained the whole backlog is dropped
LeakyBucket_update_state_drains_all(b, now) ==
    LET current_level == b.current_level
        next_allowed == b.next_allowed_time
        elapsed == saturating_sub(now, next_allowed)
        processed == IF Positive(b.ms_per_request)
                     THEN FloorQuot(elapsed, b.ms_per_request) ELSE current_level
        full_next == now + Trunc(b.ms_per_request)
    IN  IF current_level = 0 THEN [b |-> b, ret |-> <<0, next_allowed>>]
        ELSE IF elapsed = 0 THEN [b |-> b, ret |-> <<current_level, next_allowed>>]
        ELSE IF processed >= 1
        THEN [b |-> [b EXCEPT !.current_level = 0, !.next_allowed_time = full_next],
              ret |-> <<0, full_next>>]
        ELSE [b |-> b, ret |-> <<current_level, next_allowed>>]

\* mutant: a partial drain moves next_allowed to now
LeakyBucket_update_state_partial_to_now(b, now) ==
    LET current_level == b.current_level
        next_allowed == b.next_allowed_time
        elapsed == saturating_sub(now, next_allowed)
        processed == IF Positive(b.ms_per_request)
                     THEN FloorQuot(elapsed, b.ms_per_request) ELSE current_level
        full_next == now + Trunc(b.ms_per_request)
        new_level == current_level - processed
    IN  IF current_level = 0 THEN [b |-> b, ret |-> <<0, next_allowed>>]
        ELSE IF elapsed = 0 THEN [b |-> b, ret |-> <<current_level, next_allowed>>]
        ELSE IF processed >= current_level
        THEN [b |-> [b EXCEPT !.current_level = 0, !.next_allowed_time = full_next],
              ret |-> <<0, full_next>>]
        ELSE [b |-> [b EXCEPT !.current_level = new_level, !.next_allowed_time = now],
              ret |-> <<new_level, now>>]

\* One caller running update_state to completion: the bucket after it and the
\* pair (level, next_allowed) it returns.  With a single caller each
\* compare-exchange finds the level it has just loaded (a spurious failure of
\* the weak one repeats the same pass), so the loop body runs once.
\* the pair update_state stores is the pair it returns
LeakyBucket_update_state_stored(b, current_level, next_allowed) ==
    [b |-> [b EXCEPT !.current_level = current_level, !.next_allowed_time = next_allowed],
     ret |-> <<current_level, next_allowed>>]

\* update_state once elapsed and processed are computed
LeakyBucket_update_state_processed(b, now, elapsed, processed) ==
    LET current_level == b.current_level
        next_allowed == b.next_allowed_time
        ms_per_request == b.ms_per_request
    IN  IF current_level = 0 THEN [b |-> b, ret |-> <<0, next_allowed>>]
        ELSE IF elapsed = 0 THEN [b |-> b, ret |-> <<current_level, next_allowed>>]
        ELSE IF processed >= current_level
        THEN LeakyBucket_update_state_stored(b, 0, now + Trunc(ms_per_request))
        ELSE LeakyBucket_update_state_stored(b, current_level - processed,
                 next_allowed + TruncProd(processed, ms_per_request))

LeakyBucket_update_state(b, now) ==
    LeakyBucket_update_state_processed(b, now, saturating_sub(now, b.next_allowed_time),
        IF Positive(b.ms_per_request)
        THEN FloorQuot(saturating_sub(now, b.next_allowed_time), b.ms_per_request)
        ELSE b.current_level)

\* mutant: the new capacity is never stored
LeakyBucket_set_rate_keeps_capacity(b, capacity, requests_per_second, now) ==
    LET ms_per_request == IF Positive(requests_per_second)
                          THEN MsPer(requests_per_second) ELSE <<0, 1>>
        stored == [b EXCEPT !.ms_per_request = ms_per_request]
        u == LeakyBucket_update_state(stored, now)
    IN  IF u.ret[1] = 0 \/ u.b.next_allowed_time < now
        THEN [u.b EXCEPT !.next_allowed_time = now]
        ELSE u.b

\* mutant: set_rate leaves next_allowed_time as the drain left it
LeakyBucket_set_rate_keeps_next_allowed(b, capacity, requests_per_second, now) ==
    LET ms_per_request == IF Positive(requests_per_second)
                          THEN MsPer(requests_per_second) ELSE <<0, 1>>
        stored == [b EXCEPT !.capacity = capacity, !.ms_per_request = ms_per_request]
    IN  LeakyBucket_update_state(stored, now).b

\* set_rate after its update_state returned u
LeakyBucket_set_rate_updated(u, now) ==
    LET current_level == u.ret[1]
    IN  IF current_level = 0
        THEN [u.b EXCEPT !.next_allowed_time = now]
        ELSE IF u.b.next_allowed_time < now
        THEN [u.b EXCEPT !.next_allowed_time = now]
        ELSE u.b

LeakyBucket_set_rate(b, capacity, requests_per_second, now) ==
    LeakyBucket_set_rate_updated(
        LeakyBucket_update_state(
            [b EXCEPT !.capacity = capacity,
                      !.ms_per_request = IF Positive(requests_per_second)
                                         THEN MsPer(requests_per_second) ELSE <<0, 1>>],
            now),
        now)

\* the retry hint of a request rejected for lack of headroom
LeakyBucket_wait_ms(tokens, current_level, capacity, ms_per_request) ==
    IF Positive(ms_per_request)
    THEN CeilProd(current_level + tokens - capacity, ms_per_request)
    ELSE 0

\* mutant: the request is added to the backlog before the headroom check and
\* is not taken back when the check fails
LeakyBucket_try_acquire_adds_first(b, tokens, now) ==
    IF tokens = 0 THEN [b |-> b, ret |-> Ok]
    ELSE LET capacity == b.capacity IN
         IF tokens > capacity
         THEN [b |-> b, ret |-> rate_limit_exceeded(tokens, capacity, 0)]
         ELSE LET u == LeakyBucket_update_state(b, now)
                  current_level == u.ret[1]
                  added == [u.b EXCEPT !.current_level = current_level + tokens]
              IN  IF current_level + tokens > capacity
                  THEN [b |-> added,
                        ret |-> rate_limit_exceeded(tokens,
                                  saturating_sub(capacity, current_level),
                                  LeakyBucket_wait_ms(tokens, current_level, capacity,
                                                      u.b.ms_per_request))]
                  ELSE [b |-> added, ret |-> Ok]

\* mutant: the lazy drain runs before the request is compared with the capacity
LeakyBucket_try_acquire_drains_first(b, tokens, now) ==
    IF tokens = 0 THEN [b |-> b, ret |-> Ok]
    ELSE LET capacity == b.capacity
             u == LeakyBucket_update_state(b, now)
             current_level == u.ret[1]
         IN  IF tokens > capacity
             THEN [b |-> u.b, ret |-> rate_limit_exceeded(tokens, capacity, 0)]
             ELSE IF current_level + tokens > capacity
             THEN [b |-> u.b,
                   ret |-> rate_limit_exceeded(tokens,
                             saturating_sub(capacity, current_level),
                             LeakyBucket_wait_ms(tokens, current_level, capacity,
                                                 u.b.ms_per_request))]
             ELSE [b |-> [u.b EXCEPT !.current_level = current_level + tokens],
                   ret |-> Ok]

\* mutant: a successful try_acquire also moves next_allowed_time to now
LeakyBucket_try_acquire_stamps_next_allowed(b, tokens, now) ==
    IF tokens = 0 THEN [b |-> b, ret |-> Ok]
    ELSE LET capacity == b.capacity IN
         IF tokens > capacity
         THEN [b |-> b, ret |-> rate_limit_exceeded(tokens, capacity, 0)]
         ELSE LET u == LeakyBucket_update_state(b, now)
                  current_level == u.ret[1]
              IN  IF current_level + tokens > capacity
                  THEN [b |-> u.b,
                        ret |-> rate_limit_exceeded(tokens,
                                  saturating_sub(capacity, current_level),
                                  LeakyBucket_wait_ms(tokens, current_level, capacity,
                                                      u.b.ms_per_request))]
                  ELSE [b |-> [u.b EXCEPT !.current_level = current_level + tokens,
                                          !.next_allowed_time = now],
                        ret |-> Ok]

\* try_acquire after its update_state returned u
LeakyBucket_try_acquire_updated(u, tokens, capacity) ==
    LET current_level == u.ret[1]
    IN  IF current_level + tokens > capacity
        THEN [b |-> u.b,
              ret |-> rate_limit_exceeded(tokens,
                        saturating_sub(capacity, current_level),
                        LeakyBucket_wait_ms(tokens, current_level, capacity,
                                            u.b.ms_per_request))]
        ELSE \* the compare_exchange of a single caller always succeeds
             [b |-> [u.b EXCEPT !.current_level = current_level + tokens],
              ret |-> Ok]

LeakyBucket_try_acquire(b, tokens, now) ==
    IF tokens = 0 THEN [b |-> b, ret |-> Ok]
    ELSE LET capacity == b.capacity IN
         IF tokens > capacity
         THEN [b |-> b, ret |-> rate_limit_exceeded(tokens, capacity, 0)]
         ELSE LeakyBucket_try_acquire_updated(LeakyBucket_update_state(b, now),
                                              tokens, capacity)

\* mutant: the backlog is added to the capacity instead of subtracted from it
LeakyBucket_available_tokens_adds_level(b, now) ==
    LET u == LeakyBucket_update_state(b, now)
    IN  [b |-> u.b, ret |-> u.b.capacity + u.ret[1]]

\* mutant: the capacity is reported, whatever the backlog
LeakyBucket_available_tokens_ignores_level(b, now) ==
    LET u == LeakyBucket_update_state(b, now)
    IN  [b |-> u.b, ret |-> u.b.capacity]

LeakyBucket_available_tokens(b, now) ==
    [b |-> LeakyBucket_update_state(b, now).b,
     ret |-> saturating_sub(b.capacity, LeakyBucket_update_state(b, now).ret[1])]

LeakyBucket_capacity(b) == b.capacity

\* (rate * 1_000_000.0).round() / 1_000_000.0, round = half away from zero.
\* The whole part is split off so that no intermediate product exceeds 2^31.
Round6(rate) ==
    LET whole == rate[1] \div rate[2]
        rem == rate[1] % rate[2]
        micro == whole * 1000000 + (2 * rem * 1000000 + rate[2]) \div (2 * rate[2])
    IN  Reduce(<<micro, 1000000>>)

LeakyBucket_rate_per_second(b) ==
    IF Positive(b.ms_per_request)
    THEN Round6(Reduce(<<1000 * b.ms_per_request[2], b.ms_per_request[1]>>))
    ELSE <<0, 1>>

\* reads next_allowed_time only; the level is not consulted
LeakyBucket_time_until_next_token_ms(b, now) ==
    LET next_allowed == b.next_allowed_time
    IN  IF next_allowed > now THEN Some(next_allowed - now) ELSE None

\* update_config after set_rate left the bucket s: the level is clamped
LeakyBucket_update_config_set(s, capacity) ==
    [b |-> IF s.current_level > capacity THEN [s EXCEPT !.current_level = capacity] ELSE s,
     ret |-> Ok]

LeakyBucket_update_config(b, capacity, requests_per_second, now) ==
    IF capacity = 0
    THEN [b |-> b, ret |-> invalid_config("capacity must be greater than 0")]
    ELSE IF ~Positive(requests_per_second)
    THEN [b |-> b, ret |-> invalid_config("requests_per_second must be positive")]
    ELSE LeakyBucket_update_config_set(
             LeakyBucket_set_rate(LeakyBucket_update_state(b, now).b,
                                  capacity, requests_per_second, now),
             capacity)

\* ------------------------------------------- RateLimiter trait (dispatch)
try_acquire(b, tokens, now) ==
    IF b.kind = "TokenBucket" THEN TokenBucket_try_acquire(b, tokens, now)
    ELSE LeakyBucket_try_acquire(b, tokens, now)

available_tokens(b, now) ==
    IF b.kind = "TokenBucket" THEN TokenBucket_available_tokens(b, now)
    ELSE LeakyBucket_available_tokens(b, now)

capacity(b) ==
    IF b.kind = "TokenBucket" THEN TokenBucket_capacity(b) ELSE LeakyBucket_capacity(b)

rate_per_second(b) ==
    IF b.kind = "TokenBucket" THEN TokenBucket_rate_per_second(b)
    ELSE LeakyBucket_rate_per_second(b)

time_until_next_token_ms(b, now) ==
    IF b.kind = "TokenBucket" THEN TokenBucket_time_until_next_token_ms(b, now)
    ELSE LeakyBucket_time_until_next_token_ms(b, now)

update_config(b, cap, rate, now) ==
    IF b.kind = "TokenBucket" THEN TokenBucket_update_config(b, cap, rate, now)
    ELSE LeakyBucket_update_config(b, cap, rate, now)

\* the time one unit takes: ms_per_token or ms_per_request
ms_per_unit(b) == IF b.kind = "TokenBucket" THEN b.ms_per_token ELSE b.ms_per_request

\* the stored ms_per_unit is a whole number of milliseconds
WholeMs(b) == Trunc(ms_per_unit(b)) = Ceil(ms_per_unit(b))

\* ------------------------------------------------------------------ inputs
\* rates a limiter is constructed or reconfigured with: 500/s (2 ms per unit),
\* 400/s (2.5 ms per unit) and 10000/19 = 526.31578947.../s (1.9 ms per unit)
Rates == {<<500, 1>>, <<400, 1>>, <<10000, 19>>}

\* rates update_config must refuse: 0.0 and -1.0
BadRates == {<<0, 1>>, <<-1, 1>>}

Capacities == 1..MaxCap

NoArg == <<>>

Threads == 1..NumThreads

\* a thread between calls, with `left` of its calls still to make
Idle(left) ==
    [pc |-> "idle", left |-> left, op |-> "none", tokens |-> 0, now |-> 0, capacity |-> 0,
     last |-> 0, tokens_to_add |-> 0, current_tokens |-> 0, capped_tokens |-> 0,
     current_level |-> 0, next_allowed |-> 0, ms_per_request |-> <<0, 1>>,
     new_capacity |-> 0, new_rate |-> <<0, 1>>]

\* ---------------------------------------------- a single caller (Spec)
\* The limiter is constructed at clock reading 0 (MockClock::new(0)).
Init ==
    /\ clock = 0
    /\ \E c \in Capacities, r \in Rates :
          /\ bucket \in {TokenBucket_with_clock(c, r, 0), LeakyBucket_with_clock(r, c, 0)}
          /\ last = [op |-> "with_clock", arg |-> <<c, r>>, ret |-> Ok]
    /\ th = [t \in Threads |-> Idle(0)]
    /\ success_count = 0
    /\ attempts = 0

\* MockClock::advance(ms): now.fetch_add(ms), ms = 0 included
Advance ==
    /\ \E ms \in 0..(MaxTime - clock) : clock' = clock + ms
    /\ last' = [op |-> "advance", arg |-> NoArg, ret |-> Ok]
    /\ UNCHANGED <<bucket, th, success_count, attempts>>

\* MockClock::set(ms): now.store(ms); the new reading may be earlier than the
\* old one, and earlier than the readings the limiter has stored
SetClock ==
    /\ \E ms \in 0..MaxTime : clock' = ms
    /\ last' = [op |-> "set", arg |-> NoArg, ret |-> Ok]
    /\ UNCHANGED <<bucket, th, success_count, attempts>>

TryAcquire ==
    \E tokens \in 0..(MaxCap + 1) :
        LET r == try_acquire(bucket, tokens, clock) IN
        /\ bucket' = r.b
        /\ last' = [op |-> "try_acquire", arg |-> tokens, ret |-> r.ret]
        /\ UNCHANGED <<clock, th, success_count, attempts>>

AvailableTokens ==
    LET r == available_tokens(bucket, clock) IN
    /\ bucket' = r.b
    /\ last' = [op |-> "available_tokens", arg |-> NoArg, ret |-> r.ret]
    /\ UNCHANGED <<clock, th, success_count, attempts>>

TimeUntilNextToken ==
    LET r == time_until_next_token_ms(bucket, clock) IN
    /\ last' = [op |-> "time_until_next_token_ms", arg |-> NoArg, ret |-> r]
    /\ UNCHANGED <<clock, bucket, th, success_count, attempts>>

\* the counter a limiter holds: tokens left, or backlog level
Held(b) == IF b.kind = "TokenBucket" THEN b.tokens ELSE b.current_level

\* update_config; the caller keeps the counter it saw before the call
UpdateConfig ==
    \E cap \in 0..MaxCap, rate \in Rates \cup BadRates :
        LET r == update_config(bucket, cap, rate, clock) IN
        /\ bucket' = r.b
        /\ last' = [op |-> "update_config", arg |-> <<cap, rate>>, ret |-> r.ret,
                    before |-> Held(bucket)]
        /\ UNCHANGED <<clock, th, success_count, attempts>>

Next ==
    \/ Advance
    \/ SetClock
    \/ TryAcquire
    \/ AvailableTokens
    \/ TimeUntilNextToken
    \/ UpdateConfig

Spec == Init /\ [][Next]_vars

TypeOK ==
    /\ clock \in 0..MaxTime
    /\ bucket.kind \in {"TokenBucket", "LeakyBucket"}
    /\ bucket.capacity \in Capacities

\* a single caller that never reconfigures: try_acquire, available_tokens and
\* clock advances only
NextCalls == Advance \/ SetClock \/ TryAcquire \/ AvailableTokens

SpecCalls == Init /\ [][NextCalls]_vars

\* ===================================================== single-caller claims
IsToken == bucket.kind = "TokenBucket"
IsLeaky == bucket.kind = "LeakyBucket"

\* a refill of at least one token is due at the current clock reading
RefillDue ==
    /\ IsToken
    /\ FloorQuot(saturating_sub(clock, bucket.last_update), bucket.ms_per_token) > 0

\* a backlog exists and at least one unit of it has drained by now
DrainDue ==
    /\ IsLeaky
    /\ bucket.current_level > 0
    /\ FloorQuot(saturating_sub(clock, bucket.next_allowed_time), bucket.ms_per_request) > 0

\* C2: token bucket, single caller: in every state reached by try_acquire,
\* available_tokens, successful or failed update_config and clock advances,
\* available_tokens() <= capacity() -- both for a call made now and for the
\* value the last available_tokens() call returned.
C2_TokenAvailableAtMostCapacity ==
    IsToken =>
        /\ TokenBucket_available_tokens(bucket, clock).ret <= TokenBucket_capacity(bucket)
        /\ last.op = "available_tokens" => last.ret <= TokenBucket_capacity(bucket)

\* C2 witness: available_tokens() has just published a refill that reached
\* the capacity, after the clock moved.
C2_Witness ==
    /\ IsToken
    /\ last.op = "available_tokens"
    /\ last.ret = bucket.capacity
    /\ bucket.last_update = clock
    /\ clock >= 4

\* C3: leaky bucket, single caller: in every state reached by try_acquire,
\* available_tokens, successful or failed update_config and clock advances,
\* available_tokens() <= capacity().
C3_LeakyAvailableAtMostCapacity ==
    IsLeaky =>
        /\ LeakyBucket_available_tokens(bucket, clock).ret <= LeakyBucket_capacity(bucket)
        /\ last.op = "available_tokens" => last.ret <= LeakyBucket_capacity(bucket)

\* C3 witness: available_tokens() has just drained part of a backlog and
\* reported the headroom left.
C3_Witness ==
    /\ IsLeaky
    /\ last.op = "available_tokens"
    /\ bucket.current_level > 0
    /\ last.ret = bucket.capacity - bucket.current_level
    /\ bucket.next_allowed_time > 0

\* C5: for both limiters and in every reachable state, try_acquire(0) returns
\* success and changes no field, so available() is the same before and after.
C5_ZeroAcquireIsNoOp ==
    LET r == try_acquire(bucket, 0, clock) IN
    /\ r.ret.ok
    /\ r.b = bucket
    /\ available_tokens(r.b, clock).ret = available_tokens(bucket, clock).ret

\* C5 witness: try_acquire(0) has just returned Ok on a token bucket whose
\* refill is still due (an access that refreshed the state would have
\* published it).
C5_Witness ==
    /\ last.op = "try_acquire"
    /\ last.arg = 0
    /\ last.ret.ok
    /\ RefillDue
    /\ bucket.tokens < bucket.capacity

\* the token count after the lazy refill, as the design states it:
\* min(capacity, tokens + floor(elapsed / ms_per_unit))
RefreshedTokens ==
    Min(bucket.capacity,
        bucket.tokens + FloorQuot(saturating_sub(clock, bucket.last_update),
                                  bucket.ms_per_token))

\* C6: token bucket, single caller: try_acquire(n) with n above the refreshed
\* token count a fails with RateLimitExceeded{requested = n, available = a,
\* retry_after_ms = ceil((n - a) * ms_per_unit)} and leaves the token count
\* at a.
C6_TokenRejection ==
    IsToken =>
        /\ \A n \in 1..(MaxCap + 1) :
              LET a == RefreshedTokens
                  r == TokenBucket_try_acquire(bucket, n, clock)
              IN  n > a =>
                    /\ ~r.ret.ok
                    /\ r.ret = rate_limit_exceeded(n, a, CeilProd(n - a, bucket.ms_per_token))
                    /\ r.b.tokens = a
        /\ (last.op = "try_acquire" /\ ~last.ret.ok) =>
              /\ last.ret.requested = last.arg
              /\ last.ret.available = bucket.tokens
              /\ last.ret.available < last.arg

\* C6 witness: a request for 2 tokens was just refused with 0 available on a
\* bucket with 2.5 ms per token: retry_after_ms = ceil(2 * 2.5) = 5.
C6_Witness ==
    /\ IsToken
    /\ last.op = "try_acquire"
    /\ ~last.ret.ok
    /\ last.ret.requested = 2
    /\ last.ret.available = 0
    /\ last.ret.retry_after_ms = 5
    /\ bucket.tokens = 0

\* C7: leaky bucket, single caller: try_acquire(n) with 1 <= n <= capacity and
\* drained level L with L + n > capacity fails with RateLimitExceeded
\* {requested = n, available = capacity - L, retry_after_ms =
\* ceil((L + n - capacity) * ms_per_unit)}, and level and next_allowed after
\* the call are exactly what the lazy drain alone produces.
C7_LeakyRejection ==
    IsLeaky =>
        \A n \in 1..bucket.capacity :
            LET d == LeakyBucket_update_state(bucket, clock)
                L == d.ret[1]
                r == LeakyBucket_try_acquire(bucket, n, clock)
            IN  L + n > bucket.capacity =>
                  /\ ~r.ret.ok
                  /\ r.ret = rate_limit_exceeded(n, bucket.capacity - L,
                               CeilProd(L + n - bucket.capacity, bucket.ms_per_request))
                  /\ r.b.current_level = L
                  /\ r.b.current_level = d.b.current_level
                  /\ r.b.next_allowed_time = d.b.next_allowed_time

\* C7 witness: a request for 2 units was just refused after a partial drain
\* left one unit of headroom, on a bucket with 1.9 ms per unit:
\* retry_after_ms = ceil(1 * 1.9) = 2.
C7_Witness ==
    /\ IsLeaky
    /\ last.op = "try_acquire"
    /\ ~last.ret.ok
    /\ last.ret.requested = 2
    /\ last.ret.available = 1
    /\ last.ret.retry_after_ms = 2
    /\ bucket.current_level = 1
    /\ bucket.next_allowed_time > 0

\* C8: leaky bucket, every reachable state: try_acquire(n) with n > capacity()
\* fails with RateLimitExceeded whose retry_after_ms is 0 and leaves level and
\* next_allowed unchanged (no lazy drain either).
C8_LeakyOversized ==
    IsLeaky =>
        \A n \in 1..(MaxCap + 1) :
            LET r == LeakyBucket_try_acquire(bucket, n, clock) IN
            n > LeakyBucket_capacity(bucket) =>
                /\ ~r.ret.ok
                /\ r.ret.error = "RateLimitExceeded"
                /\ r.ret.retry_after_ms = 0
                /\ r.b.current_level = bucket.current_level
                /\ r.b.next_allowed_time = bucket.next_allowed_time

\* C8 witness: an oversized request was just refused with retry_after_ms = 0
\* while a drain of the backlog is still due.
C8_Witness ==
    /\ IsLeaky
    /\ last.op = "try_acquire"
    /\ last.arg > bucket.capacity
    /\ ~last.ret.ok
    /\ last.ret.retry_after_ms = 0
    /\ DrainDue

\* C9: for both limiters, update_config(capacity, rate) with capacity == 0 or
\* rate <= 0 returns InvalidConfiguration and leaves every field unchanged
\* (no lazy refill or drain is published either).
C9_InvalidConfigChangesNothing ==
    \A cap \in 0..MaxCap, rate \in Rates \cup BadRates :
        LET r == update_config(bucket, cap, rate, clock) IN
        (cap = 0 \/ rate[1] <= 0) =>
            /\ ~r.ret.ok
            /\ r.ret.error = "InvalidConfiguration"
            /\ r.b = bucket

\* C9 witness: update_config with a positive capacity and rate 0.0 was just
\* refused while a drain of the backlog is still due.
C9_Witness ==
    /\ last.op = "update_config"
    /\ last.arg[1] > 0
    /\ last.arg[2] = <<0, 1>>
    /\ ~last.ret.ok
    /\ last.ret.error = "InvalidConfiguration"
    /\ DrainDue

\* new_rate has at most six decimals' worth of information lost in x:
\* x is a whole number of millionths and lies within half a millionth of rate
NearestMillionth(x, rate) ==
    LET k == x[1] * (1000000 \div x[2])
        f == k - (rate[1] \div rate[2]) * 1000000
        e == f * rate[2] - (rate[1] % rate[2]) * 1000000
    IN  /\ 1000000 % x[2] = 0
        /\ 2 * (IF e < 0 THEN -e ELSE e) <= rate[2]

\* C10 as stated: after a successful update_config(new_capacity, new_rate),
\* capacity() == new_capacity, rate() == new_rate and
\* available() <= new_capacity, for both limiters.
C10_Original ==
    (last.op = "update_config" /\ last.ret.ok) =>
        /\ capacity(bucket) = last.arg[1]
        /\ rate_per_second(bucket) = last.arg[2]
        /\ available_tokens(bucket, clock).ret <= last.arg[1]

\* C10 amended: after a successful update_config(new_capacity, new_rate),
\* capacity() == new_capacity and available() <= new_capacity for both
\* limiters; rate() == new_rate for the token bucket, and for the leaky bucket
\* rate() is new_rate rounded to the nearest millionth (equal to new_rate when
\* new_rate has at most six decimals).
C10_ConfigApplied ==
    (last.op = "update_config" /\ last.ret.ok) =>
        /\ capacity(bucket) = last.arg[1]
        /\ available_tokens(bucket, clock).ret <= last.arg[1]
        /\ IsToken => rate_per_second(bucket) = last.arg[2]
        /\ IsLeaky => NearestMillionth(rate_per_second(bucket), last.arg[2])
        /\ (IsLeaky /\ last.arg[2][2] = 1) => rate_per_second(bucket) = last.arg[2]

\* C10 witness: a leaky bucket holding a backlog was just reconfigured to a
\* smaller capacity and to the rate 10000/19, which rate() reports as
\* 526.315789.
C10_Witness ==
    /\ IsLeaky
    /\ last.op = "update_config"
    /\ last.ret.ok
    /\ last.arg = <<1, <<10000, 19>>>>
    /\ bucket.current_level = 1
    /\ clock > 0
    /\ rate_per_second(bucket) = <<526315789, 1000000>>

\* C11 as stated: token bucket, single caller: a successful
\* update_config(new_capacity, new_rate) only clamps: with t the token count
\* after the lazy refill under the old parameters, the count after the call is
\* min(t, new_capacity), so update_config never increases the available tokens.
C11_Original ==
    IsToken =>
        \A cap \in Capacities, rate \in Rates :
            LET t == TokenBucket_update_state(bucket, clock).ret
                r == TokenBucket_update_config(bucket, cap, rate, clock)
            IN  /\ r.b.tokens = Min(t, cap)
                /\ r.b.tokens <= t

\* C11 amended: token bucket, single caller: a successful
\* update_config(new_capacity, new_rate) publishes the lazy refill under the
\* old parameters and then sets the token count to new_capacity whatever the
\* refreshed count t was: the count never exceeds new_capacity, is never below
\* min(t, new_capacity), and is above t whenever t < new_capacity.
C11_ConfigRefills ==
    IsToken =>
        /\ \A cap \in Capacities, rate \in Rates :
              LET u == TokenBucket_update_state(bucket, clock)
                  t == u.ret
                  r == TokenBucket_update_config(bucket, cap, rate, clock)
              IN  /\ r.ret.ok
                  /\ r.b.tokens = cap
                  /\ r.b.tokens >= Min(t, cap)
                  /\ t < cap => r.b.tokens > t
                  /\ r.b.last_update = u.b.last_update
        /\ (last.op = "update_config" /\ last.ret.ok) => bucket.tokens = last.arg[1]

\* C11 witness: update_config(2, rate) has just succeeded on a token bucket
\* that held 0 tokens and had no refill due (last_update is still behind the
\* clock, so the call published none): the count went from 0 to 2.
C11_Witness ==
    /\ IsToken
    /\ last.op = "update_config"
    /\ last.ret.ok
    /\ last.arg[1] = 2
    /\ last.before = 0
    /\ bucket.tokens = 2
    /\ bucket.last_update < clock

\* C12: token bucket, single caller: immediately after a successful
\* update_config(new_capacity, new_rate), available_tokens() == new_capacity
\* and try_acquire(new_capacity) succeeds.
C12_FullAfterConfig ==
    (IsToken /\ last.op = "update_config" /\ last.ret.ok) =>
        LET new_capacity == last.arg[1]
            a == TokenBucket_available_tokens(bucket, clock)
        IN  /\ a.ret = new_capacity
            /\ TokenBucket_try_acquire(bucket, new_capacity, clock).ret.ok
            /\ TokenBucket_try_acquire(a.b, new_capacity, clock).ret.ok

\* C12 witness: update_config has just succeeded with a new rate and a
\* refill still pending (the clock is past last_update), and the bucket
\* holds exactly the new capacity.
C12_Witness ==
    /\ IsToken
    /\ last.op = "update_config"
    /\ last.ret.ok
    /\ bucket.tokens = last.arg[1]
    /\ bucket.tokens_per_second = last.arg[2]
    /\ bucket.last_update < clock

\* C15: token bucket, single caller: in every reachable state, two
\* consecutive available_tokens() calls with no clock advance and no other
\* operation between them return the same value, and the second call changes
\* no field.
C15_TokenAvailableIdempotent ==
    IsToken =>
        /\ LET first == TokenBucket_available_tokens(bucket, clock)
               second == TokenBucket_available_tokens(first.b, clock)
           IN  /\ second.ret = first.ret
               /\ second.b = first.b
        /\ last.op = "available_tokens" =>
              TokenBucket_available_tokens(bucket, clock) = [b |-> bucket, ret |-> last.ret]

\* C15 witness: available_tokens() has just published a refill that left the
\* bucket neither empty nor full (the next call is the second of the pair).
C15_Witness ==
    /\ IsToken
    /\ last.op = "available_tokens"
    /\ bucket.last_update = clock
    /\ clock > 0
    /\ last.ret = bucket.tokens
    /\ 0 < bucket.tokens
    /\ bucket.tokens < bucket.capacity

\* C16: leaky bucket, single caller: in every reachable state and for every
\* positive ms_per_unit (whole or not), two consecutive available_tokens()
\* calls with no clock advance and no other operation between them return
\* the same value.
C16_LeakyAvailableIdempotent ==
    IsLeaky =>
        /\ LET first == LeakyBucket_available_tokens(bucket, clock)
               second == LeakyBucket_available_tokens(first.b, clock)
           IN  second.ret = first.ret
        /\ last.op = "available_tokens" =>
              LeakyBucket_available_tokens(bucket, clock).ret = last.ret

\* C16 restricted to a whole number of ms per unit (not the claim; shows
\* where the claim's failure comes from)
C16_WholeMsOnly ==
    (IsLeaky /\ WholeMs(bucket)) =>
        LET first == LeakyBucket_available_tokens(bucket, clock)
            second == LeakyBucket_available_tokens(first.b, clock)
        IN  second.ret = first.ret

\* C17: token bucket: time_until_next_token_ms() returns None whenever at
\* least one token is currently available (e.g. on a freshly constructed,
\* full bucket), and otherwise returns the milliseconds remaining until
\* last_update + ms_per_unit (rounded up to whole milliseconds).
C17_TokenTimeUntilNext ==
    IsToken =>
        LET a == TokenBucket_available_tokens(bucket, clock).ret
            t == TokenBucket_time_until_next_token_ms(bucket, clock)
        IN  /\ a >= 1 => t = None
            /\ a = 0 => t = Some(bucket.last_update + Ceil(bucket.ms_per_token) - clock)

\* the second half of C17 alone: with no token available the call returns
\* the time left until last_update + ms_per_unit
C17_WhenEmpty ==
    (IsToken /\ TokenBucket_available_tokens(bucket, clock).ret = 0) =>
        /\ TokenBucket_time_until_next_token_ms(bucket, clock)
              = Some(bucket.last_update + Ceil(bucket.ms_per_token) - clock)
        /\ bucket.last_update + Ceil(bucket.ms_per_token) > clock

\* C18: leaky bucket: time_until_next_token_ms() returns None whenever
\* available_tokens() > 0 (including an empty bucket right after a full
\* drain), and returns Some(wait) only when the bucket is full.
C18_LeakyTimeUntilNext ==
    IsLeaky =>
        LET a == LeakyBucket_available_tokens(bucket, clock)
        IN  /\ a.ret > 0 => LeakyBucket_time_until_next_token_ms(bucket, clock) = None
            /\ a.ret > 0 => LeakyBucket_time_until_next_token_ms(a.b, clock) = None

\* the Clock contract seen from the token bucket: now() has not gone back
\* behind the reading the bucket stored last (MockClock::set can break it)
TokenClockNotSetBack == clock >= bucket.last_update

\* C19: token bucket, single caller, integer ms_per_unit, a clock that keeps
\* the Clock contract (its reading is not behind the stored last_update): if
\* try_acquire(n) with 1 <= n <= capacity fails with retry_after_ms = w, then
\* after advancing the clock by w with no other operation in between, the
\* same try_acquire(n) succeeds.
C19_TokenRetrySufficient ==
    (IsToken /\ WholeMs(bucket) /\ TokenClockNotSetBack) =>
        /\ \A n \in 1..TokenBucket_capacity(bucket) :
              LET r == TokenBucket_try_acquire(bucket, n, clock) IN
              ~r.ret.ok =>
                  TokenBucket_try_acquire(r.b, n, clock + r.ret.retry_after_ms).ret.ok
        /\ (/\ last.op = "try_acquire"
            /\ ~last.ret.ok
            /\ last.arg <= TokenBucket_capacity(bucket)) =>
              TokenBucket_try_acquire(bucket, last.arg,
                                      clock + last.ret.retry_after_ms).ret.ok

\* C19 witness: try_acquire(2) has just failed on an empty token bucket with
\* 2 ms per token and retry_after_ms = 4, one millisecond after the last
\* published refill.
C19_Witness ==
    /\ IsToken
    /\ bucket.ms_per_token = <<1000, 500>>
    /\ last.op = "try_acquire"
    /\ last.arg = 2
    /\ ~last.ret.ok
    /\ last.ret.available = 0
    /\ last.ret.retry_after_ms = 4
    /\ bucket.capacity = 2
    /\ bucket.last_update > 0
    /\ clock = bucket.last_update + 1

\* C20: leaky bucket, single caller, integer ms_per_unit: in every reachable
\* state, if try_acquire(n) with 1 <= n <= capacity fails with
\* retry_after_ms = w > 0, then after advancing the clock by w with no other
\* operation in between, the same try_acquire(n) succeeds (also when
\* next_allowed lies in the future after an earlier full drain).
C20_LeakyRetrySufficient ==
    (IsLeaky /\ WholeMs(bucket)) =>
        \A n \in 1..LeakyBucket_capacity(bucket) :
            LET r == LeakyBucket_try_acquire(bucket, n, clock) IN
            (~r.ret.ok /\ r.ret.retry_after_ms > 0) =>
                LeakyBucket_try_acquire(r.b, n, clock + r.ret.retry_after_ms).ret.ok

\* C20 where next_allowed is not in the future (not the claim; shows where
\* the claim's failure comes from)
C20_NextAllowedNotAhead ==
    (IsLeaky /\ WholeMs(bucket)) =>
        \A n \in 1..LeakyBucket_capacity(bucket) :
            LET r == LeakyBucket_try_acquire(bucket, n, clock) IN
            (~r.ret.ok /\ r.ret.retry_after_ms > 0 /\ r.b.next_allowed_time <= clock) =>
                LeakyBucket_try_acquire(r.b, n, clock + r.ret.retry_after_ms).ret.ok

\* C22: for both limiters: on a newly constructed limiter with the clock
\* unchanged since construction, available() == capacity() (token bucket
\* full, leaky bucket empty), and a first try_acquire(n) with n >= 1 succeeds
\* if and only if n <= capacity.
C22_FreshLimiter ==
    /\ [](last.op = "with_clock" =>
            /\ available_tokens(bucket, clock).ret = capacity(bucket)
            /\ IsToken => bucket.tokens = bucket.capacity
            /\ IsLeaky => bucket.current_level = 0)
    /\ [][(last.op = "with_clock" /\ last'.op = "try_acquire" /\ last'.arg >= 1) =>
            (last'.ret.ok <=> last'.arg <= capacity(bucket))]_vars

\* C22 witness: the first call on a fresh leaky bucket of burst 2 was
\* try_acquire(2) and it was granted (the clock is at its construction
\* value, where nothing can have drained: the backlog is that one request).
C22_Witness ==
    /\ IsLeaky
    /\ clock = 0
    /\ last.op = "try_acquire"
    /\ last.arg = 2
    /\ last.ret.ok
    /\ bucket.capacity = 2
    /\ bucket.current_level = 2
    /\ bucket.next_allowed_time = 0

\* C23: token bucket, single caller: in every reachable state, if
\* available_tokens() returns a and try_acquire(n) with 1 <= n <= a is then
\* called with no clock advance, it succeeds and the next available_tokens()
\* returns exactly a - n (acquiring all a leaves 0).
C23_TokenAcquireAfterRead ==
    IsToken =>
        /\ LET first == TokenBucket_available_tokens(bucket, clock) IN
           \A n \in 1..first.ret :
               LET r == TokenBucket_try_acquire(first.b, n, clock) IN
               /\ r.ret.ok
               /\ TokenBucket_available_tokens(r.b, clock).ret = first.ret - n
        /\ last.op = "available_tokens" =>
              \A n \in 1..last.ret :
                  LET r == TokenBucket_try_acquire(bucket, n, clock) IN
                  /\ r.ret.ok
                  /\ TokenBucket_available_tokens(r.b, clock).ret = last.ret - n

\* C23 witness: available_tokens() has just returned 2 after publishing a
\* refill (so try_acquire(1) and try_acquire(2) are the calls that follow).
C23_Witness ==
    /\ IsToken
    /\ last.op = "available_tokens"
    /\ last.ret = 2
    /\ bucket.last_update = clock
    /\ clock > 0

\* C24: for both limiters, single caller: in every reachable state, if
\* available_tokens() returns k > 0 then a try_acquire(k) issued immediately
\* afterwards (no clock advance, no other operation) succeeds.
C24_AcquireWhatWasRead ==
    /\ LET first == available_tokens(bucket, clock) IN
       first.ret > 0 => try_acquire(first.b, first.ret, clock).ret.ok
    /\ (last.op = "available_tokens" /\ last.ret > 0) =>
          try_acquire(bucket, last.ret, clock).ret.ok

\* C24 witness: available_tokens() has just returned 1 on a leaky bucket of
\* burst 2 after a partial drain.
C24_Witness ==
    /\ IsLeaky
    /\ last.op = "available_tokens"
    /\ last.ret = 1
    /\ bucket.capacity = 2
    /\ bucket.current_level = 1
    /\ bucket.next_allowed_time > 0

\* C27: token bucket, single caller: available_tokens() does not affect the
\* rate limiter: for any sequence of try_acquire calls and clock advances,
\* inserting an available_tokens() call leaves the result of every later
\* try_acquire and available_tokens call unchanged.  Stated for one inserted
\* call at the current state, followed by an advance of dt (possibly 0) and
\* one later call.
C27_ReadDoesNotAffectLater ==
    IsToken =>
        \A dt \in 0..MaxTime, n \in 1..MaxCap :
            LET inserted == TokenBucket_available_tokens(bucket, clock).b IN
            /\ TokenBucket_try_acquire(inserted, n, clock + dt).ret
                  = TokenBucket_try_acquire(bucket, n, clock + dt).ret
            /\ TokenBucket_available_tokens(inserted, clock + dt).ret
                  = TokenBucket_available_tokens(bucket, clock + dt).ret

\* C27 with the later call made before the clock moves again (not the claim;
\* shows where the claim's failure comes from)
C27_SameClockReading ==
    IsToken =>
        \A n \in 1..MaxCap :
            LET inserted == TokenBucket_available_tokens(bucket, clock).b IN
            /\ TokenBucket_try_acquire(inserted, n, clock).ret
                  = TokenBucket_try_acquire(bucket, n, clock).ret
            /\ TokenBucket_available_tokens(inserted, clock).ret
                  = TokenBucket_available_tokens(bucket, clock).ret

\* units granted by a series of try_acquire calls made at one clock reading
RECURSIVE AdmittedBy(_, _, _)
AdmittedBy(b, now, calls) ==
    IF calls = <<>> THEN 0
    ELSE LET r == LeakyBucket_try_acquire(b, Head(calls), now)
         IN  (IF r.ret.ok THEN Head(calls) ELSE 0) + AdmittedBy(r.b, now, Tail(calls))

\* C28: leaky bucket, single caller: over any period in which the clock
\* reading does not change, the units admitted by successful try_acquire
\* calls total at most capacity, whatever the history before that period
\* (including a bucket that sat idle).  Stated for every series of three
\* calls made from the current state without a clock advance.
C28_AtMostBurstPerInstant ==
    IsLeaky =>
        \A n1 \in 1..MaxCap, n2 \in 1..MaxCap, n3 \in 1..MaxCap :
            AdmittedBy(bucket, clock, <<n1, n2, n3>>) <= LeakyBucket_capacity(bucket)

\* C28 when next_allowed is not behind the clock reading at the start of the
\* period (not the claim; shows where the claim's failure comes from)
C28_NextAllowedIsNow ==
    (IsLeaky /\ bucket.next_allowed_time >= clock) =>
        \A n1 \in 1..MaxCap, n2 \in 1..MaxCap, n3 \in 1..MaxCap :
            AdmittedBy(bucket, clock, <<n1, n2, n3>>)
                <= LeakyBucket_capacity(bucket) - bucket.current_level

\* C29: token bucket lazy refill, single caller: an access at clock time now
\* with elapsed = now - last_update and added = floor(elapsed / ms_per_unit)
\* sets tokens to min(capacity, tokens + added) and last_update to now when
\* added > 0, and changes neither tokens nor last_update when added == 0.
\* Stated for every available_tokens() step (the refill alone) and every
\* try_acquire(n >= 1) step (the refill, then n taken when granted).  A
\* reading behind last_update (the clock was set back) adds nothing either:
\* the source subtracts saturating at 0.
C29_TokenLazyRefill ==
    [][(IsToken /\ last'.op \in {"available_tokens", "try_acquire"}) =>
        LET elapsed == clock - bucket.last_update
            added == IF elapsed > 0 THEN FloorQuot(elapsed, bucket.ms_per_token) ELSE 0
            refreshed == IF added > 0 THEN Min(bucket.capacity, bucket.tokens + added)
                         ELSE bucket.tokens
            stamped == IF added > 0 THEN clock ELSE bucket.last_update
        IN  /\ last'.op = "available_tokens" =>
                  /\ bucket' = [bucket EXCEPT !.tokens = refreshed, !.last_update = stamped]
                  /\ last'.ret = refreshed
            /\ (last'.op = "try_acquire" /\ last'.arg >= 1) =>
                  /\ bucket'.last_update = stamped
                  /\ bucket'.tokens = IF last'.ret.ok THEN refreshed - last'.arg
                                      ELSE refreshed]_vars

\* C29 witness: available_tokens() has just been called 1 ms after a
\* published refill on a bucket with 2.5 ms per token: no token was due, so
\* last_update stayed behind the clock and the count stayed below capacity.
C29_Witness ==
    /\ IsToken
    /\ last.op = "available_tokens"
    /\ bucket.ms_per_token = <<1000, 400>>
    /\ bucket.last_update > 0
    /\ clock = bucket.last_update + 1
    /\ last.ret = bucket.tokens
    /\ bucket.tokens < bucket.capacity

\* C30: leaky bucket lazy drain, single caller, integer ms_per_unit m: an
\* access at time now with level > 0, elapsed = now - next_allowed > 0 and
\* processed = floor(elapsed / m) sets level = 0 and next_allowed = now + m
\* when processed >= level, and otherwise sets level = level - processed and
\* next_allowed = next_allowed + processed * m (not now); when level == 0 or
\* elapsed == 0 neither field changes.  Stated for every available_tokens()
\* step (the drain alone) and every try_acquire(n) step with
\* 1 <= n <= capacity (the drain, then n added when granted).
C30_LeakyLazyDrain ==
    [][(IsLeaky /\ WholeMs(bucket)
          /\ last'.op \in {"available_tokens", "try_acquire"}) =>
        LET level == bucket.current_level
            m == bucket.ms_per_request[1] \div bucket.ms_per_request[2]
            elapsed == clock - bucket.next_allowed_time
            processed == elapsed \div m
            drains == level > 0 /\ elapsed > 0
            drained == IF ~drains THEN level
                       ELSE IF processed >= level THEN 0
                       ELSE level - processed
            next == IF ~drains THEN bucket.next_allowed_time
                    ELSE IF processed >= level THEN clock + m
                    ELSE bucket.next_allowed_time + processed * m
        IN  /\ last'.op = "available_tokens" =>
                  /\ bucket' = [bucket EXCEPT !.current_level = drained,
                                              !.next_allowed_time = next]
                  /\ last'.ret = bucket.capacity - drained
            /\ (last'.op = "try_acquire" /\ last'.arg >= 1
                  /\ last'.arg <= bucket.capacity) =>
                  /\ bucket'.next_allowed_time = next
                  /\ bucket'.current_level = IF last'.ret.ok THEN drained + last'.arg
                                             ELSE drained]_vars

\* C30 witness: available_tokens() has just drained one unit of two on a
\* bucket with 2 ms per unit, 3 ms after next_allowed: next_allowed moved
\* by 2 ms and is 1 ms behind the clock.
C30_Witness ==
    /\ IsLeaky
    /\ last.op = "available_tokens"
    /\ bucket.ms_per_request = <<1000, 500>>
    /\ bucket.current_level = 1
    /\ last.ret = bucket.capacity - 1
    /\ bucket.next_allowed_time > 0
    /\ clock = bucket.next_allowed_time + 1

\* ------------------------------------- exhaust, wait one unit, retry
\* The scenario of test_token_bucket_integration / test_leaky_bucket_integration
\* for every capacity, every rate with a whole number of ms per unit and
\* every starting clock reading: capacity + 1 calls of try_acquire(1), an
\* advance of exactly one unit's time, two more calls.

\* rates with a whole number of ms per unit: 1000/s (1 ms), 500/s (2 ms),
\* 250/s (4 ms)
WholeMsRates == {<<1000, 1>>, <<500, 1>>, <<250, 1>>}

InitIntegration ==
    /\ clock \in 0..MaxTime
    /\ \E c \in Capacities, r \in WholeMsRates :
          /\ bucket \in {TokenBucket_with_clock(c, r, clock),
                          LeakyBucket_with_clock(r, c, clock)}
          /\ last = [op |-> "with_clock", arg |-> <<c, r>>, ret |-> Ok]
    /\ th = [t \in Threads |-> Idle(0)]
    /\ success_count = 0
    /\ attempts = 0

\* one try_acquire(1) of the scenario, counted by the test
IntegrationCall ==
    LET r == try_acquire(bucket, 1, clock) IN
    /\ bucket' = r.b
    /\ last' = [op |-> "try_acquire", arg |-> 1, ret |-> r.ret]
    /\ attempts' = attempts + 1
    /\ success_count' = success_count + (IF r.ret.ok THEN 1 ELSE 0)
    /\ UNCHANGED <<clock, th>>

\* the burst: capacity calls, and the one that must fail
BurstAcquire ==
    /\ attempts < capacity(bucket) + 1
    /\ IntegrationCall

\* clock.advance(ms_per_unit) after the burst
WaitOneUnit ==
    /\ attempts = capacity(bucket) + 1
    /\ last.op = "try_acquire"
    /\ clock' = clock + Trunc(ms_per_unit(bucket))
    /\ last' = [op |-> "advance", arg |-> NoArg, ret |-> Ok]
    /\ UNCHANGED <<bucket, th, success_count, attempts>>

\* the two calls after the wait
RetryAcquire ==
    /\ \/ attempts = capacity(bucket) + 1 /\ last.op = "advance"
       \/ attempts = capacity(bucket) + 2
    /\ IntegrationCall

NextIntegration == BurstAcquire \/ WaitOneUnit \/ RetryAcquire

SpecIntegration == InitIntegration /\ [][NextIntegration]_vars

\* C13: token bucket constructed with capacity C and an integer ms_per_unit
\* m, single caller, clock not advancing at first: C sequential
\* try_acquire(1) succeed; the next fails with available == 0 and
\* retry_after_ms == m; after advancing the clock by exactly m, one
\* try_acquire(1) succeeds and the one after it fails again.
C13_TokenExhaustAndRefill ==
    (IsToken /\ last.op = "try_acquire") =>
        LET C == TokenBucket_capacity(bucket)
            m == Trunc(bucket.ms_per_token)
        IN  /\ attempts <= C => (last.ret.ok /\ success_count = attempts)
            /\ attempts = C + 1 =>
                  (last.ret = rate_limit_exceeded(1, 0, m) /\ success_count = C)
            /\ attempts = C + 2 => (last.ret.ok /\ success_count = C + 1)
            /\ attempts = C + 3 =>
                  (/\ ~last.ret.ok
                   /\ last.ret.error = "RateLimitExceeded"
                   /\ success_count = C + 1)

\* C13 witness: the whole scenario has run on a token bucket of capacity 2
\* with 4 ms per token: 3 of the 5 calls succeeded and the last one failed.
C13_Witness ==
    /\ IsToken
    /\ bucket.capacity = 2
    /\ bucket.ms_per_token = <<1000, 250>>
    /\ attempts = 5
    /\ success_count = 3
    /\ last.op = "try_acquire"
    /\ ~last.ret.ok

\* C14: leaky bucket constructed with burst B and an integer ms_per_unit m,
\* single caller, clock at its construction value: B sequential
\* try_acquire(1) succeed; the next fails; advancing the clock by exactly m
\* frees exactly one slot, so one further try_acquire(1) succeeds and the one
\* after it fails again.
C14_LeakyExhaustAndDrain ==
    IsLeaky =>
        LET B == LeakyBucket_capacity(bucket) IN
        /\ last.op = "try_acquire" =>
              /\ attempts <= B => (last.ret.ok /\ success_count = attempts)
              /\ attempts = B + 1 =>
                    (/\ ~last.ret.ok
                     /\ last.ret.error = "RateLimitExceeded"
                     /\ success_count = B)
              /\ attempts = B + 2 => (last.ret.ok /\ success_count = B + 1)
              /\ attempts = B + 3 =>
                    (/\ ~last.ret.ok
                     /\ last.ret.error = "RateLimitExceeded"
                     /\ success_count = B + 1)
        /\ last.op = "advance" =>
              LeakyBucket_available_tokens(bucket, clock).ret = 1

\* C14 witness: the whole scenario has run on a leaky bucket of burst 2 with
\* 2 ms per unit (the wait drained one unit of two): 3 of the 5 calls
\* succeeded and the last one failed.
C14_Witness ==
    /\ IsLeaky
    /\ bucket.capacity = 2
    /\ bucket.ms_per_request = <<1000, 500>>
    /\ attempts = 5
    /\ success_count = 3
    /\ bucket.current_level = 2
    /\ last.op = "try_acquire"
    /\ ~last.ret.ok

\* ======================================================= concurrent callers
\* Threads share the limiter; each atomic access is one step.  A thread makes
\* its calls one after the other, as the tests' worker loops do.

\* try_acquire of thread t returns to the worker loop and its locals are
\* dropped: after Ok the loop still has its own success_count.fetch_add to do,
\* after Err the iteration is over
Return(t, ok) ==
    /\ th' = [th EXCEPT ![t] = IF ok THEN [Idle(th[t].left) EXCEPT !.pc = "fetch_add"]
                                     ELSE Idle(th[t].left - 1)]
    /\ UNCHANGED <<success_count, attempts>>

\* success_count.fetch_add(1, Ordering::Relaxed): an atomic step of the worker
\* loop, separate from the compare-exchange that admitted the call
CountSuccess(t) ==
    /\ th[t].pc = "fetch_add"
    /\ success_count' = success_count + 1
    /\ th' = [th EXCEPT ![t] = Idle(th[t].left - 1)]
    /\ UNCHANGED <<clock, bucket, last, attempts>>

Goto(t, pc) == th' = [th EXCEPT ![t].pc = pc]

Quiescent == \A t \in Threads : th[t].pc = "idle"

\* ---- TokenBucket::try_acquire, step by step
\* entry: `if tokens == 0 { return Ok(()) }`
TB_call(t, tokens) ==
    /\ IsToken
    /\ th[t].pc = "idle"
    /\ th[t].left > 0
    /\ IF tokens = 0
       THEN Return(t, TRUE)
       ELSE /\ th' = [th EXCEPT ![t].pc = "ta_now", ![t].op = "try_acquire",
                                ![t].tokens = tokens]
            /\ UNCHANGED <<success_count, attempts>>
    /\ UNCHANGED <<clock, bucket, last>>

\* let now = self.clock.now();
TB_ta_now(t) ==
    /\ IsToken
    /\ th[t].pc = "ta_now"
    /\ th' = [th EXCEPT ![t].pc = "us_load_last", ![t].now = clock]
    /\ UNCHANGED <<clock, bucket, last, success_count, attempts>>

\* update_state: let last = self.last_update.load(); elapsed == 0 ?
TB_us_load_last(t) ==
    /\ IsToken
    /\ th[t].pc = "us_load_last"
    /\ th' = [th EXCEPT ![t].last = bucket.last_update,
                        ![t].pc = IF saturating_sub(th[t].now, bucket.last_update) = 0
                                  THEN "us_ret_tokens" ELSE "us_load_mpt"]
    /\ UNCHANGED <<clock, bucket, last, success_count, attempts>>

\* where try_acquire goes once update_state has returned current_tokens
TB_after_update_state(tokens, current_tokens) ==
    IF tokens > current_tokens THEN "ta_load_mpt" ELSE "ta_cas"

\* update_state returns v to the method that called it: try_acquire goes on
\* to its comparison, available_tokens returns v, update_config goes on to
\* set_rate
TB_resume(t, v) ==
    LET l == th[t] IN
    th' = [th EXCEPT ![t] =
             IF l.op = "try_acquire"
             THEN [l EXCEPT !.current_tokens = v,
                            !.pc = TB_after_update_state(l.tokens, v)]
             ELSE IF l.op = "available_tokens" THEN Idle(l.left - 1)
             ELSE [l EXCEPT !.pc = "uc_store_cap"]]

\* update_state: return self.tokens.load() as u32  (nothing to add)
TB_us_ret_tokens(t) ==
    /\ IsToken
    /\ th[t].pc = "us_ret_tokens"
    /\ TB_resume(t, bucket.tokens)
    /\ UNCHANGED <<clock, bucket, last, success_count, attempts>>

\* update_state: load ms_per_token; tokens_to_add == 0 ?
TB_us_load_mpt(t) ==
    /\ IsToken
    /\ th[t].pc = "us_load_mpt"
    /\ LET elapsed == saturating_sub(th[t].now, th[t].last)
           tokens_to_add == IF Positive(bucket.ms_per_token)
                            THEN FloorQuot(elapsed, bucket.ms_per_token) ELSE 0
       IN  th' = [th EXCEPT ![t].tokens_to_add = tokens_to_add,
                            ![t].pc = IF tokens_to_add = 0 THEN "us_ret_tokens"
                                      ELSE "us_store_last"]
    /\ UNCHANGED <<clock, bucket, last, success_count, attempts>>

\* update_state: self.last_update.store(now)
TB_us_store_last(t) ==
    /\ IsToken
    /\ th[t].pc = "us_store_last"
    /\ bucket' = [bucket EXCEPT !.last_update = th[t].now]
    /\ Goto(t, "us_load_tokens")
    /\ UNCHANGED <<clock, last, success_count, attempts>>

\* update_state: let current_tokens = self.tokens.load()
TB_us_load_tokens(t) ==
    /\ IsToken
    /\ th[t].pc = "us_load_tokens"
    /\ th' = [th EXCEPT ![t].current_tokens = bucket.tokens, ![t].pc = "us_load_cap"]
    /\ UNCHANGED <<clock, bucket, last, success_count, attempts>>

\* update_state: let capacity = self.capacity.load(); capped_tokens = min(..)
TB_us_load_cap(t) ==
    /\ IsToken
    /\ th[t].pc = "us_load_cap"
    /\ th' = [th EXCEPT ![t].capped_tokens =
                            Min(th[t].current_tokens + th[t].tokens_to_add, bucket.capacity),
                        ![t].pc = "us_store_tokens"]
    /\ UNCHANGED <<clock, bucket, last, success_count, attempts>>

\* update_state: self.tokens.store(capped_tokens); return capped_tokens
TB_us_store_tokens(t) ==
    /\ IsToken
    /\ th[t].pc = "us_store_tokens"
    /\ bucket' = [bucket EXCEPT !.tokens = th[t].capped_tokens]
    /\ TB_resume(t, th[t].capped_tokens)
    /\ UNCHANGED <<clock, last, success_count, attempts>>

\* ---- TokenBucket::available_tokens and update_config, step by step
\* available_tokens: entry
TB_at_call(t) ==
    /\ IsToken
    /\ th[t].pc = "idle"
    /\ th[t].left > 0
    /\ th' = [th EXCEPT ![t].pc = "ta_now", ![t].op = "available_tokens"]
    /\ UNCHANGED <<clock, bucket, last, success_count, attempts>>

\* update_config: entry and validation of the arguments
TB_uc_call(t, cap, rate) ==
    /\ IsToken
    /\ th[t].pc = "idle"
    /\ th[t].left > 0
    /\ th' = [th EXCEPT ![t] =
                 IF cap = 0 \/ ~Positive(rate) THEN Idle(th[t].left - 1)
                 ELSE [th[t] EXCEPT !.pc = "ta_now", !.op = "update_config",
                                    !.new_capacity = cap, !.new_rate = rate]]
    /\ UNCHANGED <<clock, bucket, last, success_count, attempts>>

\* set_rate: self.capacity.store(capacity)
TB_uc_store_cap(t) ==
    /\ IsToken
    /\ th[t].pc = "uc_store_cap"
    /\ bucket' = [bucket EXCEPT !.capacity = th[t].new_capacity]
    /\ Goto(t, "uc_store_rate")
    /\ UNCHANGED <<clock, last, success_count, attempts>>

\* set_rate: self.tokens_per_second.store(..)
TB_uc_store_rate(t) ==
    /\ IsToken
    /\ th[t].pc = "uc_store_rate"
    /\ bucket' = [bucket EXCEPT !.tokens_per_second = th[t].new_rate]
    /\ Goto(t, "uc_store_mpt")
    /\ UNCHANGED <<clock, last, success_count, attempts>>

\* set_rate: self.ms_per_token.store(1000.0 / tokens_per_second)
TB_uc_store_mpt(t) ==
    /\ IsToken
    /\ th[t].pc = "uc_store_mpt"
    /\ bucket' = [bucket EXCEPT !.ms_per_token = MsPer(th[t].new_rate)]
    /\ Goto(t, "uc_store_tokens")
    /\ UNCHANGED <<clock, last, success_count, attempts>>

\* update_config: self.tokens.store(capacity); return Ok(())
TB_uc_store_tokens(t) ==
    /\ IsToken
    /\ th[t].pc = "uc_store_tokens"
    /\ bucket' = [bucket EXCEPT !.tokens = th[t].new_capacity]
    /\ th' = [th EXCEPT ![t] = Idle(th[t].left - 1)]
    /\ UNCHANGED <<clock, last, success_count, attempts>>

\* try_acquire, tokens > current_tokens: load ms_per_token, return Err
TB_ta_fail(t) ==
    /\ IsToken
    /\ th[t].pc = "ta_load_mpt"
    /\ Return(t, FALSE)
    /\ UNCHANGED <<clock, bucket, last>>

\* mutant: the new count is stored without comparing with the count read
TB_ta_cas_blind_store(t) ==
    /\ IsToken
    /\ th[t].pc = "ta_cas"
    /\ bucket' = [bucket EXCEPT !.tokens = th[t].current_tokens - th[t].tokens]
    /\ Return(t, TRUE)
    /\ UNCHANGED <<clock, last>>

\* try_acquire: tokens.compare_exchange(current_tokens, current_tokens - tokens);
\* Ok on success, otherwise the whole operation is run again
TB_ta_cas(t) ==
    /\ IsToken
    /\ th[t].pc = "ta_cas"
    /\ IF bucket.tokens = th[t].current_tokens
       THEN /\ bucket' = [bucket EXCEPT !.tokens = th[t].current_tokens - th[t].tokens]
            /\ Return(t, TRUE)
       ELSE /\ Goto(t, "ta_now")
            /\ UNCHANGED <<bucket, success_count, attempts>>
    /\ UNCHANGED <<clock, last>>

\* ---- LeakyBucket::try_acquire, step by step
\* entry: `if tokens == 0 { return Ok(()) }`
LB_call(t, tokens) ==
    /\ IsLeaky
    /\ th[t].pc = "idle"
    /\ th[t].left > 0
    /\ IF tokens = 0
       THEN Return(t, TRUE)
       ELSE /\ th' = [th EXCEPT ![t].pc = "ta_load_cap", ![t].op = "try_acquire",
                                ![t].tokens = tokens]
            /\ UNCHANGED <<success_count, attempts>>
    /\ UNCHANGED <<clock, bucket, last>>

\* let capacity = self.capacity.load(); tokens > capacity => Err(.., 0)
LB_ta_load_cap(t) ==
    /\ IsLeaky
    /\ th[t].pc = "ta_load_cap"
    /\ IF th[t].tokens > bucket.capacity
       THEN Return(t, FALSE)
       ELSE /\ th' = [th EXCEPT ![t].pc = "ta_now", ![t].capacity = bucket.capacity]
            /\ UNCHANGED <<success_count, attempts>>
    /\ UNCHANGED <<clock, bucket, last>>

\* let now = self.clock.now();
LB_ta_now(t) ==
    /\ IsLeaky
    /\ th[t].pc = "ta_now"
    /\ th' = [th EXCEPT ![t].pc = "us_load_level", ![t].now = clock]
    /\ UNCHANGED <<clock, bucket, last, success_count, attempts>>

\* update_state: let mut current_level = self.current_level.load();
LB_us_load_level(t) ==
    /\ IsLeaky
    /\ th[t].pc = "us_load_level"
    /\ th' = [th EXCEPT ![t].pc = "us_load_next",
                        ![t].current_level = bucket.current_level]
    /\ UNCHANGED <<clock, bucket, last, success_count, attempts>>

\* update_state: let mut next_allowed = self.next_allowed_time.load();
LB_us_load_next(t) ==
    /\ IsLeaky
    /\ th[t].pc = "us_load_next"
    /\ th' = [th EXCEPT ![t].pc = "us_load_mpr",
                        ![t].next_allowed = bucket.next_allowed_time]
    /\ UNCHANGED <<clock, bucket, last, success_count, attempts>>

\* update_state: let ms_per_request = ...load(); (the capacity load is unused)
LB_us_load_mpr(t) ==
    /\ IsLeaky
    /\ th[t].pc = "us_load_mpr"
    /\ th' = [th EXCEPT ![t].pc = "us_loop",
                        ![t].ms_per_request = bucket.ms_per_request]
    /\ UNCHANGED <<clock, bucket, last, success_count, attempts>>

\* where try_acquire goes once update_state has returned current_level
LB_after_update_state(tokens, current_level, cap) ==
    IF current_level + tokens > cap THEN "ta_load_mpr" ELSE "ta_cas"

\* units drained by `now` according to a thread's locals
LB_processed(l) ==
    IF Positive(l.ms_per_request)
    THEN FloorQuot(saturating_sub(l.now, l.next_allowed), l.ms_per_request)
    ELSE l.current_level

\* update_state returns the level v to the method that called it:
\* try_acquire goes on to its comparison, available_tokens to its capacity
\* load, update_config to set_rate, set_rate to its next_allowed_time fix-up
LB_resume(t, v) ==
    LET l == th[t] IN
    th' = [th EXCEPT ![t] =
             IF l.op = "try_acquire"
             THEN [l EXCEPT !.current_level = v,
                            !.pc = LB_after_update_state(l.tokens, v, l.capacity)]
             ELSE IF l.op = "available_tokens"
             THEN [l EXCEPT !.current_level = v, !.pc = "at_load_cap"]
             ELSE IF l.op = "update_config"
             THEN [l EXCEPT !.pc = "sr_store_cap"]
             ELSE [l EXCEPT !.current_level = v,
                            !.pc = IF v = 0 THEN "sr_store_next" ELSE "sr_load_next"]]

\* update_state, top of the loop: return when the bucket is empty or no time
\* has passed, otherwise go to the compare-exchange of the full or partial drain
LB_us_loop(t) ==
    /\ IsLeaky
    /\ th[t].pc = "us_loop"
    /\ LET l == th[t] IN
       IF l.current_level = 0
       THEN LB_resume(t, 0)
       ELSE IF saturating_sub(l.now, l.next_allowed) = 0
       THEN LB_resume(t, l.current_level)
       ELSE IF LB_processed(l) >= l.current_level
       THEN Goto(t, "us_cas_full")
       ELSE Goto(t, "us_cas_part")
    /\ UNCHANGED <<clock, bucket, last, success_count, attempts>>

\* update_state, all requests processed:
\* current_level.compare_exchange(current_level, 0)
LB_us_cas_full(t) ==
    /\ IsLeaky
    /\ th[t].pc = "us_cas_full"
    /\ IF bucket.current_level = th[t].current_level
       THEN /\ bucket' = [bucket EXCEPT !.current_level = 0]
            /\ Goto(t, "us_store_next_full")
       ELSE /\ Goto(t, "us_reload_level")
            /\ UNCHANGED bucket
    /\ UNCHANGED <<clock, last, success_count, attempts>>

\* update_state: next_allowed_time.store(now + ms_per_request as u64); return (0, ..)
LB_us_store_next_full(t) ==
    /\ IsLeaky
    /\ th[t].pc = "us_store_next_full"
    /\ bucket' = [bucket EXCEPT !.next_allowed_time =
                                    th[t].now + Trunc(th[t].ms_per_request)]
    /\ LB_resume(t, 0)
    /\ UNCHANGED <<clock, last, success_count, attempts>>

\* mutant: the weak compare-exchange of the partial drain fails every time
LB_us_cas_part_never_succeeds(t) ==
    /\ IsLeaky
    /\ th[t].pc = "us_cas_part"
    /\ Goto(t, "us_reload_level")
    /\ UNCHANGED <<clock, bucket, last, success_count, attempts>>

\* update_state, some requests remain:
\* current_level.compare_exchange_weak(current_level, new_level), comparing
\* as the strong one does
LB_us_cas_part(t) ==
    /\ IsLeaky
    /\ th[t].pc = "us_cas_part"
    /\ IF bucket.current_level = th[t].current_level
       THEN /\ bucket' = [bucket EXCEPT !.current_level =
                                           th[t].current_level - LB_processed(th[t])]
            /\ Goto(t, "us_store_next_part")
       ELSE /\ Goto(t, "us_reload_level")
            /\ UNCHANGED bucket
    /\ UNCHANGED <<clock, last, success_count, attempts>>

\* compare_exchange_weak fails although the level is the one that was read
LB_us_cas_part_spurious(t) ==
    /\ IsLeaky
    /\ th[t].pc = "us_cas_part"
    /\ bucket.current_level = th[t].current_level
    /\ Goto(t, "us_reload_level")
    /\ UNCHANGED <<clock, bucket, last, success_count, attempts>>

\* update_state: next_allowed_time.store(new_next); return (new_level, new_next)
LB_us_store_next_part(t) ==
    /\ IsLeaky
    /\ th[t].pc = "us_store_next_part"
    /\ LET l == th[t] IN
       /\ bucket' = [bucket EXCEPT !.next_allowed_time =
                         l.next_allowed + TruncProd(LB_processed(l), l.ms_per_request)]
       /\ LB_resume(t, l.current_level - LB_processed(l))
    /\ UNCHANGED <<clock, last, success_count, attempts>>

\* update_state, after a failed compare-exchange: current_level = ...load()
LB_us_reload_level(t) ==
    /\ IsLeaky
    /\ th[t].pc = "us_reload_level"
    /\ th' = [th EXCEPT ![t].pc = "us_reload_next",
                        ![t].current_level = bucket.current_level]
    /\ UNCHANGED <<clock, bucket, last, success_count, attempts>>

\* update_state, after a failed compare-exchange: next_allowed = ...load()
LB_us_reload_next(t) ==
    /\ IsLeaky
    /\ th[t].pc = "us_reload_next"
    /\ th' = [th EXCEPT ![t].pc = "us_loop",
                        ![t].next_allowed = bucket.next_allowed_time]
    /\ UNCHANGED <<clock, bucket, last, success_count, attempts>>

\* ---- LeakyBucket::available_tokens and update_config, step by step
\* available_tokens: entry
LB_at_call(t) ==
    /\ IsLeaky
    /\ th[t].pc = "idle"
    /\ th[t].left > 0
    /\ th' = [th EXCEPT ![t].pc = "ta_now", ![t].op = "available_tokens"]
    /\ UNCHANGED <<clock, bucket, last, success_count, attempts>>

\* available_tokens: self.capacity.load().saturating_sub(current_level)
LB_at_load_cap(t) ==
    /\ IsLeaky
    /\ th[t].pc = "at_load_cap"
    /\ th' = [th EXCEPT ![t] = Idle(th[t].left - 1)]
    /\ UNCHANGED <<clock, bucket, last, success_count, attempts>>

\* update_config: entry and validation of the arguments
LB_uc_call(t, cap, rate) ==
    /\ IsLeaky
    /\ th[t].pc = "idle"
    /\ th[t].left > 0
    /\ th' = [th EXCEPT ![t] =
                 IF cap = 0 \/ ~Positive(rate) THEN Idle(th[t].left - 1)
                 ELSE [th[t] EXCEPT !.pc = "ta_now", !.op = "update_config",
                                    !.new_capacity = cap, !.new_rate = rate]]
    /\ UNCHANGED <<clock, bucket, last, success_count, attempts>>

\* set_rate: self.capacity.store(capacity)
LB_sr_store_cap(t) ==
    /\ IsLeaky
    /\ th[t].pc = "sr_store_cap"
    /\ bucket' = [bucket EXCEPT !.capacity = th[t].new_capacity]
    /\ Goto(t, "sr_store_mpr")
    /\ UNCHANGED <<clock, last, success_count, attempts>>

\* set_rate: self.ms_per_request.store(1000.0 / requests_per_second)
LB_sr_store_mpr(t) ==
    /\ IsLeaky
    /\ th[t].pc = "sr_store_mpr"
    /\ bucket' = [bucket EXCEPT !.ms_per_request = MsPer(th[t].new_rate)]
    /\ Goto(t, "sr_now")
    /\ UNCHANGED <<clock, last, success_count, attempts>>

\* set_rate: let now = self.clock.now(); then update_state(now)
LB_sr_now(t) ==
    /\ IsLeaky
    /\ th[t].pc = "sr_now"
    /\ th' = [th EXCEPT ![t].pc = "us_load_level", ![t].op = "set_rate",
                        ![t].now = clock]
    /\ UNCHANGED <<clock, bucket, last, success_count, attempts>>

\* set_rate, bucket not empty: let current_next = next_allowed_time.load();
\* current_next < now ?
LB_sr_load_next(t) ==
    /\ IsLeaky
    /\ th[t].pc = "sr_load_next"
    /\ Goto(t, IF bucket.next_allowed_time < th[t].now
               THEN "sr_store_next" ELSE "uc_load_level")
    /\ UNCHANGED <<clock, bucket, last, success_count, attempts>>

\* set_rate: self.next_allowed_time.store(now)
LB_sr_store_next(t) ==
    /\ IsLeaky
    /\ th[t].pc = "sr_store_next"
    /\ bucket' = [bucket EXCEPT !.next_allowed_time = th[t].now]
    /\ Goto(t, "uc_load_level")
    /\ UNCHANGED <<clock, last, success_count, attempts>>

\* update_config: let current_level = ...load(); current_level > capacity ?
LB_uc_load_level(t) ==
    /\ IsLeaky
    /\ th[t].pc = "uc_load_level"
    /\ th' = [th EXCEPT ![t] =
                 IF bucket.current_level > th[t].new_capacity
                 THEN [th[t] EXCEPT !.pc = "uc_store_level"]
                 ELSE Idle(th[t].left - 1)]
    /\ UNCHANGED <<clock, bucket, last, success_count, attempts>>

\* update_config: self.current_level.store(capacity); return Ok(())
LB_uc_store_level(t) ==
    /\ IsLeaky
    /\ th[t].pc = "uc_store_level"
    /\ bucket' = [bucket EXCEPT !.current_level = th[t].new_capacity]
    /\ th' = [th EXCEPT ![t] = Idle(th[t].left - 1)]
    /\ UNCHANGED <<clock, last, success_count, attempts>>

\* try_acquire, current_level + tokens > capacity: load ms_per_request, return Err
LB_ta_fail(t) ==
    /\ IsLeaky
    /\ th[t].pc = "ta_load_mpr"
    /\ Return(t, FALSE)
    /\ UNCHANGED <<clock, bucket, last>>

\* mutant: the new level is stored without comparing with the level read
LB_ta_cas_blind_store(t) ==
    /\ IsLeaky
    /\ th[t].pc = "ta_cas"
    /\ bucket' = [bucket EXCEPT !.current_level = th[t].current_level + th[t].tokens]
    /\ Return(t, TRUE)
    /\ UNCHANGED <<clock, last>>

\* try_acquire: current_level.compare_exchange(current_level, current_level + tokens);
\* Ok on success, otherwise the whole operation is run again
LB_ta_cas(t) ==
    /\ IsLeaky
    /\ th[t].pc = "ta_cas"
    /\ IF bucket.current_level = th[t].current_level
       THEN /\ bucket' = [bucket EXCEPT !.current_level = th[t].current_level + th[t].tokens]
            /\ Return(t, TRUE)
       ELSE /\ Goto(t, "ta_load_cap")
            /\ UNCHANGED <<bucket, success_count, attempts>>
    /\ UNCHANGED <<clock, last>>

\* ---- the concurrency tests: a fresh limiter, the clock never advanced, every
\* thread calling try_acquire(1) CallsPerThread times
InitWorkers ==
    /\ clock = 0
    /\ last = [op |-> "with_clock", arg |-> NoArg, ret |-> Ok]
    /\ th = [t \in Threads |-> Idle(CallsPerThread)]
    /\ success_count = 0
    /\ attempts = 0

InitTokenWorkers ==
    /\ InitWorkers
    /\ \E c \in Capacities, r \in Rates : bucket = TokenBucket_with_clock(c, r, 0)

InitLeakyWorkers ==
    /\ InitWorkers
    /\ \E c \in Capacities, r \in Rates : bucket = LeakyBucket_with_clock(r, c, 0)

NextTokenWorkers ==
    \E t \in Threads :
        \/ TB_call(t, 1)
        \/ TB_ta_now(t)
        \/ TB_us_load_last(t)
        \/ TB_us_ret_tokens(t)
        \/ TB_ta_fail(t)
        \/ TB_ta_cas(t)
        \/ CountSuccess(t)

NextLeakyWorkers ==
    \E t \in Threads :
        \/ LB_call(t, 1)
        \/ LB_ta_load_cap(t)
        \/ LB_ta_now(t)
        \/ LB_us_load_level(t)
        \/ LB_us_load_next(t)
        \/ LB_us_load_mpr(t)
        \/ LB_us_loop(t)
        \/ LB_ta_fail(t)
        \/ LB_ta_cas(t)
        \/ CountSuccess(t)

SpecTokenWorkers == InitTokenWorkers /\ [][NextTokenWorkers]_vars

SpecLeakyWorkers == InitLeakyWorkers /\ [][NextLeakyWorkers]_vars

\* calls of thread t whose loop iteration is over
RECURSIVE CallsMade(_)
CallsMade(T) ==
    IF T = {} THEN 0
    ELSE LET t == CHOOSE u \in T : TRUE
         IN  (CallsPerThread - th[t].left) + CallsMade(T \ {t})

\* C1: token bucket, clock not advancing, no reconfiguration: threads
\* concurrently calling try_acquire(1) on a fresh bucket of capacity C never
\* get more than C successes, and once the calls made so far have all
\* returned the successes number exactly min(C, calls made).
C1_ExactlyMinSuccesses ==
    /\ success_count <= bucket.capacity
    /\ Quiescent => success_count = Min(bucket.capacity, CallsMade(Threads))
    /\ Quiescent => bucket.tokens = bucket.capacity - success_count

\* C1 witness: every thread has finished, more calls were made than the
\* bucket held tokens, and exactly capacity of them succeeded.
C1_Witness ==
    /\ Quiescent
    /\ \A t \in Threads : th[t].left = 0
    /\ CallsMade(Threads) = NumThreads * CallsPerThread
    /\ CallsMade(Threads) > bucket.capacity
    /\ success_count = bucket.capacity

\* C4: leaky bucket, clock held at its construction value, no
\* reconfiguration: threads concurrently calling try_acquire(1) on a fresh
\* bucket with burst size B never get more than B successes.
C4_AtMostBurstSuccesses ==
    /\ success_count <= bucket.capacity
    /\ bucket.current_level <= bucket.capacity

\* C4 witness: every thread has finished, more calls were made than the burst
\* size, and the burst size is what succeeded.
C4_Witness ==
    /\ Quiescent
    /\ \A t \in Threads : th[t].left = 0
    /\ CallsMade(Threads) > bucket.capacity
    /\ success_count = bucket.capacity
    /\ bucket.current_level = bucket.capacity

\* =====================================================================
\* Threads sharing one limiter while the clock moves (advanced, or set to
\* any reading) and the limiter is reconfigured: try_acquire,
\* available_tokens and update_config, one atomic access per step
\* =====================================================================
RaceCalls == 1
RaceMaxTime == 2

\* another thread moves the shared MockClock forward by a millisecond
Tick ==
    /\ clock < RaceMaxTime
    /\ clock' = clock + 1
    /\ UNCHANGED <<bucket, last, th, success_count, attempts>>

\* another thread sets the shared MockClock (MockClock::set), forward or back
SetRaceClock ==
    /\ \E ms \in 0..RaceMaxTime : clock' = ms
    /\ UNCHANGED <<bucket, last, th, success_count, attempts>>

InitRace ==
    /\ clock = 0
    /\ last = [op |-> "with_clock", arg |-> NoArg, ret |-> Ok]
    /\ th = [t \in Threads |-> Idle(RaceCalls)]
    /\ success_count = 0
    /\ attempts = 0

InitTokenRace ==
    /\ InitRace
    /\ \E c \in Capacities, r \in Rates : bucket = TokenBucket_with_clock(c, r, 0)

NextTokenRace ==
    \/ Tick
    \/ SetRaceClock
    \/ \E t \in Threads :
        \/ \E n \in 1..MaxCap : TB_call(t, n)
        \/ TB_at_call(t)
        \/ \E c \in 0..MaxCap, r \in Rates \cup BadRates : TB_uc_call(t, c, r)
        \/ TB_ta_now(t)
        \/ TB_us_load_last(t)
        \/ TB_us_load_mpt(t)
        \/ TB_us_store_last(t)
        \/ TB_us_load_tokens(t)
        \/ TB_us_load_cap(t)
        \/ TB_us_store_tokens(t)
        \/ TB_us_ret_tokens(t)
        \/ TB_ta_fail(t)
        \/ TB_ta_cas(t)
        \/ TB_uc_store_cap(t)
        \/ TB_uc_store_rate(t)
        \/ TB_uc_store_mpt(t)
        \/ TB_uc_store_tokens(t)
        \/ CountSuccess(t)

SpecTokenRace == InitTokenRace /\ [][NextTokenRace]_vars

\* C25: token bucket shared by threads that call try_acquire,
\* available_tokens and update_config while the clock advances: whenever no
\* operation is in flight the stored token count is between 0 and the
\* capacity, so available_tokens() is at most capacity().
C25_TokensWithinCapacity ==
    Quiescent =>
        /\ 0 <= bucket.tokens
        /\ bucket.tokens <= bucket.capacity
        /\ TokenBucket_available_tokens(bucket, clock).ret <= TokenBucket_capacity(bucket)

InitLeakyRace ==
    /\ InitRace
    /\ \E c \in Capacities, r \in Rates : bucket = LeakyBucket_with_clock(r, c, 0)

NextLeakyRace ==
    \/ Tick
    \/ SetRaceClock
    \/ \E t \in Threads :
        \/ \E n \in 1..MaxCap : LB_call(t, n)
        \/ LB_at_call(t)
        \/ \E c \in 0..MaxCap, r \in Rates \cup BadRates : LB_uc_call(t, c, r)
        \/ LB_ta_load_cap(t)
        \/ LB_ta_now(t)
        \/ LB_us_load_level(t)
        \/ LB_us_load_next(t)
        \/ LB_us_load_mpr(t)
        \/ LB_us_loop(t)
        \/ LB_us_cas_full(t)
        \/ LB_us_store_next_full(t)
        \/ LB_us_cas_part(t)
        \/ LB_us_cas_part_spurious(t)
        \/ LB_us_store_next_part(t)
        \/ LB_us_reload_level(t)
        \/ LB_us_reload_next(t)
        \/ LB_ta_fail(t)
        \/ LB_ta_cas(t)
        \/ LB_at_load_cap(t)
        \/ LB_sr_store_cap(t)
        \/ LB_sr_store_mpr(t)
        \/ LB_sr_now(t)
        \/ LB_sr_load_next(t)
        \/ LB_sr_store_next(t)
        \/ LB_uc_load_level(t)
        \/ LB_uc_store_level(t)
        \/ CountSuccess(t)

SpecLeakyRace == InitLeakyRace /\ [][NextLeakyRace]_vars

\* C26: leaky bucket shared by threads that call try_acquire,
\* available_tokens and update_config while the clock advances: whenever no
\* operation is in flight the stored level is between 0 and the capacity.
C26_LevelWithinCapacity ==
    Quiescent =>
        /\ 0 <= bucket.current_level
        /\ bucket.current_level <= bucket.capacity

\* =====================================================================
\* Threads calling try_acquire on a shared limiter of either kind while the
\* clock moves forward (a clock that keeps the Clock contract), under fair
\* scheduling
\* =====================================================================
AcquireCalls == 2

\* one unit every 2 ms
AcquireRates == {<<500, 1>>}

InitAcquirers ==
    /\ clock = 0
    /\ last = [op |-> "with_clock", arg |-> NoArg, ret |-> Ok]
    /\ th = [t \in Threads |-> Idle(AcquireCalls)]
    /\ success_count = 0
    /\ attempts = 0
    /\ \E c \in Capacities, r \in AcquireRates :
          \/ bucket = TokenBucket_with_clock(c, r, 0)
          \/ bucket = LeakyBucket_with_clock(r, c, 0)

\* the next atomic access of thread t inside TokenBucket::try_acquire
TB_step(t) ==
    \/ TB_ta_now(t)
    \/ TB_us_load_last(t)
    \/ TB_us_load_mpt(t)
    \/ TB_us_store_last(t)
    \/ TB_us_load_tokens(t)
    \/ TB_us_load_cap(t)
    \/ TB_us_store_tokens(t)
    \/ TB_us_ret_tokens(t)
    \/ TB_ta_fail(t)
    \/ TB_ta_cas(t)

\* the next atomic access of thread t inside LeakyBucket::try_acquire
LB_step(t) ==
    \/ LB_ta_load_cap(t)
    \/ LB_ta_now(t)
    \/ LB_us_load_level(t)
    \/ LB_us_load_next(t)
    \/ LB_us_load_mpr(t)
    \/ LB_us_loop(t)
    \/ LB_us_cas_full(t)
    \/ LB_us_store_next_full(t)
    \/ LB_us_cas_part(t)
    \/ LB_us_cas_part_spurious(t)
    \/ LB_us_store_next_part(t)
    \/ LB_us_reload_level(t)
    \/ LB_us_reload_next(t)
    \/ LB_ta_fail(t)
    \/ LB_ta_cas(t)

NextAcquirers ==
    \/ Tick
    \/ \E t \in Threads :
        \/ \E n \in 1..MaxCap : TB_call(t, n)
        \/ \E n \in 1..MaxCap : LB_call(t, n)
        \/ TB_step(t)
        \/ LB_step(t)
        \/ CountSuccess(t)

\* every thread inside a call or its loop keeps being scheduled, and a weak
\* compare-exchange that is tried again and again with the level unchanged
\* does not fail spuriously for ever
FairAcquirers ==
    \A t \in Threads :
        /\ WF_vars(TB_step(t))
        /\ WF_vars(LB_step(t))
        /\ WF_vars(CountSuccess(t))
        /\ SF_vars(LB_us_cas_part(t) /\ th'[t].pc = "us_store_next_part")

SpecAcquirers == InitAcquirers /\ [][NextAcquirers]_vars /\ FairAcquirers

\* thread t is inside try_acquire: it has entered and not yet returned
InCall(t) == th[t].pc \notin {"idle", "fetch_add"}

\* a thread's compare-exchange has just failed and sends it round again
CasFailed(t) ==
    \/ th[t].pc = "ta_cas" /\ th'[t].pc \in {"ta_now", "ta_load_cap"}
    \/ th[t].pc \in {"us_cas_full", "us_cas_part"} /\ th'[t].pc = "us_reload_level"

\* the counter the compare-exchange of thread t is about to compare
Counter == IF IsToken THEN bucket.tokens ELSE bucket.current_level

\* the value thread t read and expects to find
Expected(t) == IF IsToken THEN th[t].current_tokens ELSE th[t].current_level

\* C21: both limiters, threads calling try_acquire under fair scheduling,
\* each making finitely many calls: every try_acquire that has been entered
\* eventually returns Ok or RateLimitExceeded; and a compare-exchange fails
\* only when the counter is no longer the value the thread read, or it is the
\* weak compare-exchange of the partial drain failing spuriously.
C21_TryAcquireReturns ==
    /\ \A t \in Threads : InCall(t) ~> ~InCall(t)
    /\ [][\A t \in Threads :
            CasFailed(t) => \/ Counter # Expected(t)
                            \/ th[t].pc = "us_cas_part"]_vars

\* C21 witness: a thread's compare-exchange in the drain loop has failed
\* because the other thread changed the level, and the other thread has made
\* all its calls.
C21_Witness ==
    \E t \in Threads :
        /\ th[t].pc = "us_reload_level"
        /\ bucket.current_level # th[t].current_level
        /\ \A u \in Threads \ {t} : th[u].pc = "idle" /\ th[u].left = 0

\* =====================================================================
\* A single caller filling and draining a leaky bucket with a deeper backlog
\* and a whole number of milliseconds per request
\* =====================================================================
DrainCap == 3

InitDrain ==
    /\ clock = 0
    /\ \E c \in 1..DrainCap, r \in WholeMsRates :
          /\ bucket = LeakyBucket_with_clock(r, c, 0)
          /\ last = [op |-> "with_clock", arg |-> <<c, r>>, ret |-> Ok]
    /\ th = [t \in Threads |-> Idle(0)]
    /\ success_count = 0
    /\ attempts = 0

NextDrain == Advance \/ SetClock \/ TryAcquire \/ AvailableTokens

SpecDrain == InitDrain /\ [][NextDrain]_vars

\* requests a drain of b at `now` takes out on the partial branch of
\* update_state, -1 when the drain returns early or empties the bucket
PartialDrain(b, now) ==
    LET elapsed == saturating_sub(now, b.next_allowed_time)
        processed == IF Positive(b.ms_per_request)
                     THEN FloorQuot(elapsed, b.ms_per_request) ELSE b.current_level
    IN  IF b.current_level > 0 /\ elapsed > 0 /\ processed < b.current_level
        THEN processed ELSE -1

\* C31: leaky bucket, single caller, whole milliseconds per request, no
\* acquisition in between: when the drain at t1 and the drain at a later t2
\* are both partial, the level and next_allowed after the two drains are
\* those after the single drain at t2.
C31_PartialDrainsKeepPhase ==
    (IsLeaky /\ WholeMs(bucket)) =>
        \A t1 \in clock..MaxTime, t2 \in clock..MaxTime :
            LET first == LeakyBucket_update_state(bucket, t1)
                second == LeakyBucket_update_state(first.b, t2)
                single == LeakyBucket_update_state(bucket, t2)
            IN  (t1 < t2 /\ PartialDrain(bucket, t1) >= 0 /\ PartialDrain(first.b, t2) >= 0)
                    => /\ second.b = single.b
                       /\ second.ret = single.ret

\* C31 witness: a backlog from which two later partial drains each take
\* out at least one request.
C31_Witness ==
    /\ IsLeaky
    /\ WholeMs(bucket)
    /\ \E t1 \in clock..MaxTime, t2 \in clock..MaxTime :
          LET first == LeakyBucket_update_state(bucket, t1)
              second == LeakyBucket_update_state(first.b, t2)
          IN  /\ t1 < t2
              /\ PartialDrain(bucket, t1) >= 1
              /\ PartialDrain(first.b, t2) >= 1
              /\ second.b.current_level =
                     bucket.current_level - PartialDrain(bucket, t1) - PartialDrain(first.b, t2)
              /\ second.b.current_level >= 1

\* =====================================================================
\* Reconfiguring a leaky bucket, single caller
\* =====================================================================

\* C32: leaky bucket, single caller: with L the level a drain at the current
\* time leaves under the old ms_per_request, the level after a successful
\* update_config(new_capacity, new_rate) is min(L, new_capacity); the new
\* rate drains nothing for time that elapsed before the call.
C32_ConfigSettlesAtOldRate ==
    IsLeaky =>
        \A cap \in 0..MaxCap, rate \in Rates \cup BadRates :
            LET settled == LeakyBucket_update_state(bucket, clock).ret[1]
                r == LeakyBucket_update_config(bucket, cap, rate, clock)
            IN  r.ret.ok => r.b.current_level = Min(settled, cap)

Max(a, b) == IF a >= b THEN a ELSE b

\* C33: leaky bucket, single caller: right after a successful update_config
\* at clock time now, next_allowed is not before now; it is now when the
\* backlog is empty, and the later of its value before the call and now when
\* a backlog remains.
C33_ConfigNextAllowed ==
    [][(IsLeaky /\ last'.op = "update_config" /\ last'.ret.ok) =>
          /\ bucket'.next_allowed_time >= clock
          /\ bucket'.current_level = 0 => bucket'.next_allowed_time = clock
          /\ bucket'.current_level > 0 =>
                 bucket'.next_allowed_time = Max(bucket.next_allowed_time, clock)]_vars

\* C33 witness: update_config has succeeded on a bucket whose backlog
\* remains and whose next_allowed was ahead of the clock, and is kept.
C33_Witness ==
    /\ IsLeaky
    /\ last.op = "update_config"
    /\ last.ret.ok
    /\ bucket.current_level > 0
    /\ bucket.next_allowed_time > clock

\* =====================================================================
\* Threads calling try_acquire(1) on a shared token bucket while the clock
\* moves forward only (the monotonic clock C34 and C36 are about), whole
\* milliseconds per token, no reconfiguration
\* =====================================================================
InitTokenTick ==
    /\ clock = 0
    /\ last = [op |-> "with_clock", arg |-> NoArg, ret |-> Ok]
    /\ th = [t \in Threads |-> Idle(AcquireCalls)]
    /\ success_count = 0
    /\ attempts = 0
    /\ \E c \in Capacities, r \in WholeMsRates : bucket = TokenBucket_with_clock(c, r, 0)

NextTokenTick ==
    \/ Tick
    \/ \E t \in Threads :
        \/ TB_call(t, 1)
        \/ TB_step(t)
        \/ CountSuccess(t)

SpecTokenTick == InitTokenTick /\ [][NextTokenTick]_vars

\* C34: token bucket constructed at time 0 with capacity C, threads calling
\* try_acquire(1) while the clock advances, whole milliseconds per token: the
\* units admitted so far (one per successful call) never exceed
\* C + floor(clock / ms_per_token).
C34_AdmittedWithinRefill ==
    success_count <= bucket.capacity + FloorQuot(clock, bucket.ms_per_token)

\* =====================================================================
\* Threads draining a shared leaky bucket at one clock reading: the bucket
\* was filled with last.arg requests at time 0, the clock then moved, and
\* every thread calls available_tokens
\* =====================================================================
InitSameReading ==
    /\ clock \in 1..RaceMaxTime
    /\ \E c \in Capacities, r \in WholeMsRates, k \in 1..MaxCap :
          /\ k <= c
          /\ bucket = LeakyBucket_try_acquire(LeakyBucket_with_clock(r, c, 0), k, 0).b
          /\ last = [op |-> "try_acquire", arg |-> k, ret |-> Ok]
    /\ th = [t \in Threads |-> Idle(RaceCalls)]
    /\ success_count = 0
    /\ attempts = 0

\* the next atomic access of thread t inside LeakyBucket::available_tokens
LB_at_step(t) ==
    \/ LB_ta_now(t)
    \/ LB_us_load_level(t)
    \/ LB_us_load_next(t)
    \/ LB_us_load_mpr(t)
    \/ LB_us_loop(t)
    \/ LB_us_cas_full(t)
    \/ LB_us_store_next_full(t)
    \/ LB_us_cas_part(t)
    \/ LB_us_cas_part_spurious(t)
    \/ LB_us_store_next_part(t)
    \/ LB_us_reload_level(t)
    \/ LB_us_reload_next(t)
    \/ LB_at_load_cap(t)

NextSameReading == \E t \in Threads : LB_at_call(t) \/ LB_at_step(t)

SpecSameReading == InitSameReading /\ [][NextSameReading]_vars

\* the bucket as it was filled, before any thread drained it
Filled == [bucket EXCEPT !.current_level = last.arg, !.next_allowed_time = 0]

\* C35: leaky bucket, whole milliseconds per request, no reconfiguration:
\* once several threads have run the lazy drain for the same clock reading,
\* the level and next_allowed are those one sequential drain at that reading
\* leaves.
C35_ConcurrentDrainIsOneDrain ==
    (Quiescent /\ \A t \in Threads : th[t].left = 0) =>
        LET one == LeakyBucket_update_state(Filled, clock).b IN
        /\ bucket.current_level = one.current_level
        /\ bucket.next_allowed_time = one.next_allowed_time

\* C36: token bucket, threads calling try_acquire while the clock moves
\* forward only: no step of any interleaving makes the stored last_update
\* smaller.
C36_LastUpdateNeverDecreases ==
    [][bucket'.last_update >= bucket.last_update]_vars

\* thread t returns Ok from a try_acquire on this step
Succeeds(t) ==
    /\ th[t].op = "try_acquire"
    /\ InCall(t)
    /\ th'[t].pc = "fetch_add"

\* C37: token bucket, threads calling try_acquire(n), available_tokens and
\* update_config while the clock moves: a try_acquire(n) returns Ok only on
\* the step of its compare-exchange, which takes tokens from a value v >= n
\* to v - n; a failed compare-exchange changes nothing and sends the thread
\* back to the clock read; the stored count is never negative.
C37_SuccessIsOneTransition ==
    /\ [](bucket.tokens >= 0)
    /\ [][\A t \in Threads :
            /\ Succeeds(t) =>
                  /\ th[t].pc = "ta_cas"
                  /\ bucket.tokens >= th[t].tokens
                  /\ bucket'.tokens = bucket.tokens - th[t].tokens
            /\ (th[t].pc = "ta_cas" /\ ~Succeeds(t) /\ th'[t] # th[t]) =>
                  /\ th'[t].pc = "ta_now"
                  /\ bucket.tokens # th[t].current_tokens
                  /\ bucket' = bucket]_vars

\* C37 witness: a thread whose compare-exchange failed after it had seen
\* enough tokens is back at the clock read, while another call has succeeded.
C37_Witness ==
    /\ IsToken
    /\ success_count >= 1
    /\ \E t \in Threads :
          /\ th[t].pc = "ta_now"
          /\ th[t].op = "try_acquire"
          /\ th[t].tokens >= 1
          /\ th[t].current_tokens >= th[t].tokens

\* C38: leaky bucket, single caller: a successful try_acquire(n), n >= 1,
\* leaves the bucket as the lazy drain at the current time leaves it, with
\* n added to the level; when the bucket was empty before the call
\* next_allowed keeps the value it had, also when that is behind the clock.
C38_AcquireLeavesNextAllowed ==
    [][(IsLeaky /\ last'.op = "try_acquire" /\ last'.arg >= 1 /\ last'.ret.ok) =>
          LET drained == LeakyBucket_update_state(bucket, clock).b IN
          /\ bucket' = [drained EXCEPT !.current_level = drained.current_level + last'.arg]
          /\ bucket.current_level = 0 =>
                 /\ bucket'.next_allowed_time = bucket.next_allowed_time
                 /\ bucket'.current_level = last'.arg]_vars

\* C38 witness: a request was just admitted into an empty bucket and
\* next_allowed is still behind the clock.
C38_Witness ==
    /\ IsLeaky
    /\ last.op = "try_acquire"
    /\ last.arg >= 1
    /\ last.ret.ok
    /\ bucket.current_level = last.arg
    /\ bucket.next_allowed_time + 2 <= clock

====
